---- MODULE Spec2Model ----
(***************************************************************************)
(* A model of the CAM Gerber analyzer of Agion-Inc/aspocomp-agents:        *)
(* the Gerber parser, the Excellon drill parser, the design-rule           *)
(* extractor and the design-summary aggregator.                            *)
(*                                                                         *)
(* Numbers.  Python floats are modelled as fixed-point integers with       *)
(* six decimals: the integer n stands for the float n / 10^6.  Every       *)
(* value read from a file is a multiple of 100 (four decimals), so that    *)
(* the products with 25.4 (n * 254 / 10) and with 1.2 (n * 12 / 10) are    *)
(* exact.  round(x, k) is modelled as decimal round-half-even.             *)
(*                                                                         *)
(* Optional values.  Python's None is the empty sequence <<>> and a        *)
(* present value v is <<v>>.                                               *)
(***************************************************************************)
EXTENDS Integers, Sequences, FiniteSets, TLC

VARIABLES
    gfile,          \* parse_gerber_file: the Gerber file at file_path
    gresult,        \* parse_gerber_file: the returned dictionary, <<>> before the call
    dfile,          \* parse_drill_file: the drill file at file_path
    dresult,        \* parse_drill_file: the returned dictionary, <<>> before the call
    rfile,          \* extract_trace_widths_and_spacing: the Gerber file at file_path
    rresult,        \* extract_trace_widths_and_spacing: the returned dictionary
    design_files,   \* generate_design_summary: the rows of get_design_files(analysis_id)
    summary,        \* generate_design_summary: the returned dictionary, <<>> before the call
    filename,       \* detect_file_format: the filename argument, "" when not given
    file_path,      \* detect_file_format: what the file_path argument names
    detected,       \* detect_file_format: the returned dictionary, <<>> before the call
    analysis_id,    \* the analysis the session tools are called for
    analysis,       \* database: the status of the analyses row of analysis_id, None without a row
    analysis_result,  \* database: the analysis_results row of analysis_id, None without a row
    analysis_issues,  \* database: the rows of analysis_issues, in id order
    cam,            \* perform_cam_analysis: the returned dictionary, <<>> before the call
    fetched,        \* get_analysis_issues: the call and the returned list, None before the call
    layers,         \* analyze_all_layers_for_design_rules: the returned dictionary
    analyses_table,     \* database: the rows of analyses, in id order
    design_files_table, \* database: the rows of design_files, in id order
    upload_store,       \* the files under data/cam_gerber_analyzer/uploads, by path
    uploaded,       \* upload_design_files: the returned dictionary, <<>> before a call
    conversations,  \* conversation_manager._conversations: id -> messages
    conv_call,      \* the last call of conversation_manager made directly, <<>> before one
    sends,          \* the send_message calls made by POST /api/chat, in order of arrival
    initiatives,    \* initiative_assistant: the rows of initiatives, in id order
    initiatives_twin,   \* a second store that differs in the personal fields only
    tool_out,       \* the tool called on both stores and its two outputs, <<>> before
    results_table,  \* database: the rows of analysis_results, in id order
    savers          \* the concurrent save_analysis_result calls: arguments and position

vars ==
    <<gfile, gresult, dfile, dresult, rfile, rresult, design_files, summary,
      filename, file_path, detected,
      analysis_id, analysis, analysis_result, analysis_issues, cam, fetched, layers,
      analyses_table, design_files_table, upload_store, uploaded,
      conversations, conv_call, sends, initiatives, initiatives_twin, tool_out,
      results_table, savers>>

gerberVars == <<gfile, gresult>>
drillVars == <<dfile, dresult>>
rulesVars == <<rfile, rresult>>
summaryVars == <<design_files, summary>>
detectVars == <<filename, file_path, detected>>
databaseVars == <<analysis_id, analysis, analysis_result, analysis_issues>>
sessionVars == <<databaseVars, cam, fetched>>
layersVars == <<layers>>
uploadVars == <<analyses_table, design_files_table, upload_store, uploaded>>
chatVars == <<conversations, conv_call, sends>>
initiativeVars == <<initiatives, initiatives_twin, tool_out>>
saveVars == <<results_table, savers>>

----------------------------------------------------------------------------
(* Bounds of the model *)

MaxApertures == 2
MaxTokens == 2
MaxLines == 3
MaxRuleApertures == 2
MaxFiles == 2
MaxIssues == 3
MaxNarrow == 11
MaxUploadFiles == 2
MaxMessages == 2
MaxSends == 2
MaxInitiatives == 2
MaxSavers == 2

\* search_similar: search_terms[:5], and the default of limit
TermLimit == 5
DefaultLimit == 5

----------------------------------------------------------------------------
(* Optional values and arithmetic helpers *)

None == <<>>
Some(v) == <<v>>
Val(o) == o[1]

\* Python truthiness of an optional number: None and 0 are falsy
Truthy(o) == o # <<>> /\ o[1] # 0

Abs(n) == IF n < 0 THEN -n ELSE n

SeqMin(s) == CHOOSE m \in {s[i] : i \in DOMAIN s} : \A i \in DOMAIN s : m <= s[i]
SeqMax(s) == CHOOSE m \in {s[i] : i \in DOMAIN s} : \A i \in DOMAIN s : m >= s[i]
SetMin(S) == CHOOSE m \in S : \A x \in S : m <= x
SetMax(S) == CHOOSE m \in S : \A x \in S : m >= x

RECURSIVE SeqSum(_)
SeqSum(s) == IF s = <<>> THEN 0 ELSE s[1] + SeqSum(Tail(s))

SeqsUpTo(S, n) == UNION {[1..k -> S] : k \in 0..n}

\* x * 25.4
Times254(x) == (x * 254) \div 10

\* round(x, k) for x >= 0, with q = 10^(6-k): the nearest multiple of q, ties to even
RoundTo(x, q) ==
    LET lo == (x \div q) * q
        r == x - lo
    IN  IF 2 * r < q THEN lo
        ELSE IF 2 * r > q THEN lo + q
        ELSE IF (x \div q) % 2 = 0 THEN lo ELSE lo + q

Round2(x) == RoundTo(x, 10000)
Round3(x) == RoundTo(x, 1000)

\* sorted(S) for a finite set of integers
RECURSIVE SortSet(_)
SortSet(S) == IF S = {} THEN <<>> ELSE <<SetMin(S)>> \o SortSet(S \ {SetMin(S)})

SeqToSet(s) == {s[i] : i \in DOMAIN s}

\* s[:n]
Prefix(s, n) == SubSeq(s, 1, IF Len(s) < n THEN Len(s) ELSE n)

----------------------------------------------------------------------------
(* parse_gerber_file: the files it is given *)

\* Values of a length as written in a file (file units, six decimals)
AperVals == {200000, 200500, 600000}

\* An aperture object of the geometry library, by the attributes hasattr finds:
\* "d" diameter; "wh" width and height; "w" width only; "str" none of them but a
\* string form naming a diameter; "none" nothing the parser recognises
Apertures ==
    [attrs : {"d", "str"}, diameter : AperVals, width : {0}, height : {0}]
    \cup [attrs : {"wh"}, diameter : {0}, width : AperVals, height : AperVals]
    \cup [attrs : {"w"}, diameter : {0}, width : AperVals, height : {0}]
    \cup [attrs : {"none"}, diameter : {0}, width : {0}, height : {0}]

\* gerber_file.bounds of the geometry library: None, or (x_bounds, y_bounds), each
\* (min, max) or something that is no pair
AxisBounds == {<<>>, <<0, 0>>, <<0, 3000>>, <<500000, 2500000>>}
LibBounds == {None} \cup {Some(<<xb, yb>>) : xb \in AxisBounds, yb \in AxisBounds}

\* Digit strings of X<digits>Y<digits> coordinates
CoordVals == {0, 300, 150300}

\* A coordinate token of the file text outside the % lines: X<d>Y<d> combined, or
\* an X<d> or a Y<d> standing alone
Tokens ==
    [k : {"XY"}, x : CoordVals, y : CoordVals]
    \cup [k : {"X"}, x : CoordVals, y : {0}]
    \cup [k : {"Y"}, x : {0}, y : CoordVals]

\* Files the full-geometry tier reads (gerber.read succeeds)
TierAFiles ==
    [exists : {TRUE}, lib : {"ok"}, readable : {TRUE}, units : {"MM", "IN"},
     bounds : LibBounds, apertures : SeqsUpTo(Apertures, MaxApertures),
     tokens : {<<>>, <<[k |-> "XY", x |-> 0, y |-> 0], [k |-> "XY", x |-> 150300, y |-> 300]>>}]

\* Files left to the heuristic tier (the library is missing or raises)
TierBFiles ==
    [exists : {TRUE}, lib : {"fails"}, readable : BOOLEAN, units : {"MM", "IN", "NONE"},
     bounds : {None}, apertures : {<<>>},
     tokens : SeqsUpTo(Tokens, MaxTokens)]

\* A path at which there is no file
MissingFile ==
    [exists |-> FALSE, lib |-> "fails", readable |-> FALSE, units |-> "NONE",
     bounds |-> None, apertures |-> <<>>, tokens |-> <<>>]

GerberFiles == TierAFiles \cup TierBFiles \cup {MissingFile}

NoGerberFile == MissingFile

----------------------------------------------------------------------------
(* parse_gerber_file *)

\* The size one aperture adds to aperture_sizes: <<>> when it adds none
ApertureSize(ap) ==
    IF ap.attrs = "d" THEN <<ap.diameter>>
    ELSE IF ap.attrs = "wh" THEN
        <<IF ap.width > ap.height THEN ap.width ELSE ap.height>>
    ELSE IF ap.attrs = "w" THEN <<ap.width>>
    ELSE IF ap.attrs = "str" THEN <<ap.diameter>>
    ELSE <<>>

\* aperture_sizes after the loop over apertures_dict
RECURSIVE CollectApertureSizes(_)
CollectApertureSizes(aps) ==
    IF aps = <<>> THEN <<>>
    ELSE ApertureSize(Head(aps)) \o CollectApertureSizes(Tail(aps))

\* An aperture counted as circular: a diameter, or width and height within 0.001
IsCircular(ap) ==
    \/ ap.attrs \in {"d", "str"}
    \/ ap.attrs = "wh" /\ Abs(ap.width - ap.height) < 1000

IsOval(ap) == ap.attrs = "wh" /\ ~(Abs(ap.width - ap.height) < 1000)

IsRectangular(ap) == ap.attrs = "w"

CircularCount(aps) == Cardinality({i \in DOMAIN aps : IsCircular(aps[i])})
RectangularCount(aps) == Cardinality({i \in DOMAIN aps : IsRectangular(aps[i])})
OvalCount(aps) == Cardinality({i \in DOMAIN aps : IsOval(aps[i])})

\* The dictionary shape shared by both tiers and by the failure
GerberFailure ==
    [success |-> FALSE, note |-> FALSE, units |-> None, bounds |-> None,
     width |-> None, height |-> None,
     has_apertures |-> FALSE, apertures_count |-> 0, aperture_sizes |-> <<>>,
     min_aperture_size |-> None, max_aperture_size |-> None,
     avg_aperture_size |-> None,
     circular_apertures_count |-> 0, rectangular_apertures_count |-> 0,
     oval_apertures_count |-> 0]

\* min and max of one axis of the library's bounds: 0, 0 when it is no pair
AxisMinMax(b) == IF Len(b) >= 2 THEN <<b[1], b[2]>> ELSE <<0, 0>>

\* The full-geometry tier: no unit conversion is applied
ParseGerberTierA(f) ==
    LET boundsOk == f.bounds # None
        xb == IF boundsOk THEN AxisMinMax(Val(f.bounds)[1]) ELSE <<0, 0>>
        yb == IF boundsOk THEN AxisMinMax(Val(f.bounds)[2]) ELSE <<0, 0>>
        width == Abs(xb[2] - xb[1])
        height == Abs(yb[2] - yb[1])
        dims == boundsOk /\ width > 0 /\ height > 0
        sizes == CollectApertureSizes(f.apertures)
    IN  [success |-> TRUE, note |-> FALSE,
         units |-> Some(IF f.units = "IN" THEN "inch" ELSE "metric"),
         bounds |-> IF dims
                    THEN Some([min_x |-> xb[1], min_y |-> yb[1],
                               max_x |-> xb[2], max_y |-> yb[2]])
                    ELSE None,
         width |-> IF dims THEN Some(width) ELSE None,
         height |-> IF dims THEN Some(height) ELSE None,
         has_apertures |-> TRUE,
         apertures_count |-> Len(f.apertures),
         aperture_sizes |-> Prefix(SortSet(SeqToSet(sizes)), 20),
         min_aperture_size |-> IF sizes # <<>> THEN Some(SeqMin(sizes)) ELSE None,
         max_aperture_size |-> IF sizes # <<>> THEN Some(SeqMax(sizes)) ELSE None,
         avg_aperture_size |-> IF sizes # <<>> THEN Some(<<SeqSum(sizes), Len(sizes)>>)
                               ELSE None,
         circular_apertures_count |-> CircularCount(f.apertures),
         rectangular_apertures_count |-> RectangularCount(f.apertures),
         oval_apertures_count |-> OvalCount(f.apertures)]

\* digits / 100000.0, times 25.4 when the file declares inches
CoordToMm(d, units) == IF units = "IN" THEN Times254(d * 10) ELSE d * 10

\* (max - min) of the scanned coordinates, as millimetres
Extent(vals, units) == CoordToMm(Abs(SetMax(vals) - SetMin(vals)), units)

\* The heuristic tier: X<d>Y<d> tokens first, else separate X<d> and Y<d> tokens
ParseGerberTierB(f) ==
    LET xy == {i \in DOMAIN f.tokens : f.tokens[i].k = "XY"}
        xs == {f.tokens[i].x : i \in {j \in DOMAIN f.tokens : f.tokens[j].k = "X"}}
        ys == {f.tokens[i].y : i \in {j \in DOMAIN f.tokens : f.tokens[j].k = "Y"}}
        units == IF f.units = "NONE" THEN None ELSE Some(f.units)
        width == IF xy # {} THEN Some(Extent({f.tokens[i].x : i \in xy}, f.units))
                 ELSE IF xs # {} /\ ys # {} THEN Some(Extent(xs, f.units))
                 ELSE None
        height == IF xy # {} THEN Some(Extent({f.tokens[i].y : i \in xy}, f.units))
                  ELSE IF xs # {} /\ ys # {} THEN Some(Extent(ys, f.units))
                  ELSE None
    IN  [GerberFailure EXCEPT !.success = TRUE, !.note = TRUE, !.units = units,
                              !.width = width, !.height = height]

\* parse_gerber_file(file_path, file_type)
ParseGerber(f) ==
    IF ~f.exists THEN GerberFailure
    ELSE IF f.lib = "ok" THEN ParseGerberTierA(f)
    ELSE IF ~f.readable THEN GerberFailure
    ELSE ParseGerberTierB(f)

ParseGerberFile ==
    /\ gresult = <<>>
    /\ gresult' = ParseGerber(gfile)
    /\ UNCHANGED <<gfile, drillVars, rulesVars, summaryVars, detectVars, sessionVars, layersVars, uploadVars, chatVars, initiativeVars, saveVars>>


----------------------------------------------------------------------------
(* parse_drill_file: the files it is given *)

ToolNums == {"01", "02"}

\* Tool diameters as written after C (file units)
DrillDiams == {0, 25000, 39400}

\* A line of an Excellon file: "tdef" T<n>C<d>; "tsel" T<n>; "hole" X<d>Y<d>;
\* "xy" a line holding the letters X and Y that X([\d.]+)\s*Y([\d.]+) does not
\* match (X-0100Y0200); "tselhole" T<n>X<d>Y<d>, a tool and a hole on one line;
\* "metric" the METRIC header; "other" anything else
DrillLines ==
    [k : {"tdef"}, t : ToolNums, d : DrillDiams]
    \cup [k : {"tsel", "tselhole"}, t : ToolNums, d : {0}]
    \cup [k : {"hole", "xy", "metric", "other"}, t : {""}, d : {0}]

DrillLine(k, t, d) == [k |-> k, t |-> t, d |-> d]

\* T01C0.0250, T02C0.0394, then T01 with two holes and T02 with one
DrillExampleFile ==
    [exists |-> TRUE,
     lines |-> <<DrillLine("tdef", "01", 25000), DrillLine("tdef", "02", 39400),
                 DrillLine("tsel", "01", 0), DrillLine("hole", "", 0),
                 DrillLine("hole", "", 0), DrillLine("tsel", "02", 0),
                 DrillLine("hole", "", 0)>>]

DrillFiles ==
    [exists : {TRUE}, lines : SeqsUpTo(DrillLines, MaxLines)]
    \cup {DrillExampleFile}
    \cup {[exists |-> FALSE, lines |-> <<>>]}

NoDrillFile == [exists |-> FALSE, lines |-> <<>>]

----------------------------------------------------------------------------
(* parse_drill_file *)

\* tools: every T<n>C<d> of the content, a later definition overwriting an earlier
ToolTable(lines) ==
    LET defs == {i \in DOMAIN lines : lines[i].k = "tdef"}
        nums == {lines[i].t : i \in defs}
    IN  [t \in nums |-> lines[SetMax({i \in defs : lines[i].t = t})].d]

\* The line scan that counts holes by tool: the state after lines[1..i]
RECURSIVE ToolUsage(_, _)
ToolUsage(lines, i) ==
    IF i = 0 THEN [current_tool |-> None, tool_usage |-> <<>>]
    ELSE
        LET before == ToolUsage(lines, i - 1)
            line == lines[i]
            selects == line.k \in {"tdef", "tsel", "tselhole"}
            cur == IF selects THEN Some(line.t) ELSE before.current_tool
            seen == IF selects /\ line.t \notin DOMAIN before.tool_usage
                    THEN [t \in DOMAIN before.tool_usage \cup {line.t} |->
                            IF t \in DOMAIN before.tool_usage
                            THEN before.tool_usage[t] ELSE 0]
                    ELSE before.tool_usage
            hasXY == line.k \in {"hole", "xy", "tselhole"}
        IN  [current_tool |-> cur,
             tool_usage |-> IF cur # None /\ hasXY
                            THEN [seen EXCEPT ![Val(cur)] = @ + 1]
                            ELSE seen]

\* "METRIC" in content.upper() or "MM" in content
DrillUnits(lines) ==
    IF \E i \in DOMAIN lines : lines[i].k = "metric" THEN "MM" ELSE "IN"

DrillToMm(h, units) == IF units = "IN" THEN Times254(h) ELSE h

DrillFailure ==
    [success |-> FALSE, units |-> "", tools_count |-> 0, tools |-> <<>>,
     total_holes |-> 0, holes_by_tool |-> <<>>, hole_sizes_mm |-> <<>>,
     min_hole_size_mm |-> None, max_hole_size_mm |-> None,
     hole_counts_by_size |-> <<>>, unique_hole_sizes |-> 0]

\* min_hole_size_mm, max_hole_size_mm: converted when units is IN and
\* min_hole_size is truthy
HoleSizeBoundsMm(min_hole_size, max_hole_size, units) ==
    IF units = "IN" /\ Truthy(min_hole_size)
    THEN <<Some(Times254(Val(min_hole_size))),
           IF Truthy(max_hole_size) THEN Some(Times254(Val(max_hole_size))) ELSE None>>
    ELSE <<min_hole_size, max_hole_size>>

ParseDrill(f) ==
    IF ~f.exists THEN DrillFailure
    ELSE
        LET tools == ToolTable(f.lines)
            usage == ToolUsage(f.lines, Len(f.lines)).tool_usage
            count(t) == IF t \in DOMAIN usage THEN usage[t] ELSE 0
            hole_sizes == {tools[t] : t \in DOMAIN tools}
            units == DrillUnits(f.lines)
            min_hole_size == IF hole_sizes # {} THEN Some(SetMin(hole_sizes)) ELSE None
            max_hole_size == IF hole_sizes # {} THEN Some(SetMax(hole_sizes)) ELSE None
            mm == HoleSizeBoundsMm(min_hole_size, max_hole_size, units)
            counts(d) == {t \in DOMAIN tools : tools[t] = d}
            RECURSIVE SumCount(_)
            SumCount(T) == IF T = {} THEN 0
                           ELSE LET t == CHOOSE x \in T : TRUE
                                IN  count(t) + SumCount(T \ {t})
        IN  [success |-> TRUE, units |-> units,
             tools_count |-> Cardinality(DOMAIN tools),
             tools |-> tools,
             total_holes |-> Cardinality({i \in DOMAIN f.lines :
                                             f.lines[i].k \in {"hole", "tselhole"}}),
             holes_by_tool |-> usage,
             hole_sizes_mm |-> SortSet({DrillToMm(h, units) : h \in hole_sizes}),
             min_hole_size_mm |-> mm[1],
             max_hole_size_mm |-> mm[2],
             hole_counts_by_size |-> [d \in hole_sizes |-> SumCount(counts(d))],
             unique_hole_sizes |-> Cardinality(hole_sizes)]

ParseDrillFile ==
    /\ dresult = <<>>
    /\ dresult' = ParseDrill(dfile)
    /\ UNCHANGED <<dfile, gerberVars, rulesVars, summaryVars, detectVars, sessionVars, layersVars, uploadVars, chatVars, initiativeVars, saveVars>>


----------------------------------------------------------------------------
(* extract_trace_widths_and_spacing: the files it is given *)

\* The coordinate sampling is entered with more than MinCoords tokens, reads the
\* first CoordLimit of them, and compares each of the first OuterLimit points
\* with the points before index i + InnerLimit
MinCoords == 10
CoordLimit == 5000
OuterLimit == 500
InnerLimit == 50

\* Aperture dimensions as written in %ADD statements (file units)
RuleVals == {0, 120000, 499600, 500000}

\* %ADD<n>C,<size> and %ADD<n>R,<w>X<h> statements
RuleApertures ==
    [shape : {"C"}, w : RuleVals, h : {0}]
    \cup [shape : {"R"}, w : RuleVals, h : RuleVals]

\* n coordinate tokens X<x>Y<y> on a line parallel to the x axis, gap apart
CoordLine(n, gap) == [i \in 1..n |-> <<(i - 1) * gap, 0>>]

RuleCoords ==
    {<<>>, CoordLine(10, 20000), CoordLine(11, 0), CoordLine(11, 20000),
     CoordLine(11, 600000)}

\* A millimetre file declaring the circular apertures of sizes, no coordinates
CircularFile(sizes) ==
    [exists |-> TRUE, units |-> "MM",
     apertures |-> [i \in DOMAIN sizes |-> [shape |-> "C", w |-> sizes[i], h |-> 0]],
     coords |-> <<>>]

\* Files with the aperture sizes {0.03, 0.12, 0.8} and {0.3, 0.6, 0.9}
BandExampleFile == CircularFile(<<30000, 120000, 800000>>)
PadViaExampleFile == CircularFile(<<300000, 600000, 900000>>)

\* InnerLimit + 1 coordinate tokens: 6 mm apart, but for the last, which lies
\* 0.02 mm from the first; no aperture
WindowCoords ==
    [i \in 1..(InnerLimit + 1) |->
        IF i <= InnerLimit THEN <<(i - 1) * 6000000, 0>> ELSE <<20000, 0>>]

WindowExampleFile ==
    [exists |-> TRUE, units |-> "MM", apertures |-> <<>>, coords |-> WindowCoords]

RuleFiles ==
    [exists : {TRUE}, units : {"MM", "IN", "NONE"},
     apertures : SeqsUpTo(RuleApertures, MaxRuleApertures), coords : RuleCoords]
    \cup {BandExampleFile, PadViaExampleFile, WindowExampleFile}
    \cup {[exists |-> FALSE, units |-> "NONE", apertures |-> <<>>, coords |-> <<>>]}

NoRuleFile == [exists |-> FALSE, units |-> "NONE", apertures |-> <<>>, coords |-> <<>>]

----------------------------------------------------------------------------
(* extract_trace_widths_and_spacing *)

\* The size a rectangular aperture adds to file_sizes
RectSize(w, h) == IF w < h THEN w ELSE h

\* file_sizes: the circular sizes first, then the rectangular ones
FileSizes(aps) ==
    LET circ == SelectSeq(aps, LAMBDA a : a.shape = "C")
        rect == SelectSeq(aps, LAMBDA a : a.shape = "R")
    IN  [i \in 1..Len(circ) |-> circ[i].w]
        \o [i \in 1..Len(rect) |-> RectSize(rect[i].w, rect[i].h)]

RuleUnits(f) == IF f.units = "MM" THEN "MM" ELSE "IN"

RuleToMm(x, units) == IF units = "IN" THEN Times254(x) ELSE x

\* 0.001 < s < 100 (the first filter, s > 0.001, is implied)
ValidSize(s) == 1000 < s /\ s < 100000000

ValidSizes(f) ==
    LET mm == [i \in DOMAIN FileSizes(f.apertures) |->
                  RuleToMm(FileSizes(f.apertures)[i], RuleUnits(f))]
    IN  SelectSeq(mm, ValidSize)

\* trace_width without the band: always the smallest valid size
TraceWidthSmallest(valid) ==
    IF valid # <<>> THEN Some(SeqMin(valid)) ELSE None

\* trace_width: the smallest valid size in [0.05, 0.5], else the smallest valid size
TraceWidth(valid) ==
    LET cand == {s \in SeqToSet(valid) : 50000 <= s /\ s <= 500000}
    IN  IF cand # {} THEN Some(SetMin(cand))
        ELSE IF valid # <<>> THEN Some(SeqMin(valid))
        ELSE None

\* annular_ring without the pad/via split: always half the spread of the sizes
AnnularRingSpread(valid) ==
    IF Cardinality(SeqToSet(valid)) >= 2
    THEN Some((SeqMax(valid) - SeqMin(valid)) \div 2)
    ELSE None

\* annular_ring
AnnularRing(valid) ==
    LET sorted_sizes == SeqToSet(valid)
        pad_sizes == {s \in sorted_sizes : s >= 500000}
        via_sizes == {s \in sorted_sizes : s < 500000}
    IN  IF Len(valid) >= 2
        THEN IF pad_sizes # {} /\ via_sizes # {}
             THEN Some((SetMin(pad_sizes) - SetMax(via_sizes)) \div 2)
             ELSE IF Cardinality(sorted_sizes) >= 2
             THEN Some((SetMax(sorted_sizes) - SetMin(sorted_sizes)) \div 2)
             ELSE None
        ELSE None

\* Euclidean distance of two points of a line parallel to an axis
Dist(p, q) == Abs(q[1] - p[1]) + Abs(q[2] - p[2])

MinOf(a, b) == IF a < b THEN a ELSE b

\* The index pairs (0-based) the sampling loops visit for n coordinate tokens
SampledPairs(n) ==
    LET m == MinOf(n, CoordLimit)
    IN  {<<i, j>> \in (0..(MinOf(OuterLimit, m) - 1)) \X (0..(m - 1)) :
            i + 1 <= j /\ j < MinOf(i + InnerLimit, m)}

\* The index pairs whose distance is computed: none unless len(coordinates) > 10
ComparedPairs(coords) ==
    IF Len(coords) > MinCoords THEN SampledPairs(Len(coords)) ELSE {}

\* min_distances, as a set: the sampled distances inside (0.01, 5.0) mm
MinDistances(coords, units) ==
    {d \in {RuleToMm(Dist(coords[p[1] + 1], coords[p[2] + 1]), units) :
                p \in ComparedPairs(coords)} : 10000 < d /\ d < 5000000}

\* min_spacing: trace_width * 1.2, lowered to the smallest sampled distance
MinSpacing(trace_width, coords, units) ==
    LET method1 == IF Truthy(trace_width) THEN Some((Val(trace_width) * 12) \div 10)
                   ELSE None
        dists == MinDistances(coords, units)
    IN  IF dists = {} THEN method1
        ELSE IF Truthy(method1) THEN Some(MinOf(Val(method1), SetMin(dists)))
        ELSE Some(SetMin(dists))

\* round(v, 3) if v else None
Round3OrNone(o) == IF Truthy(o) THEN Some(Round3(Val(o))) ELSE None

RulesFailure ==
    [success |-> FALSE, trace_width_mm |-> None, min_spacing_mm |-> None,
     annular_ring_mm |-> None, aperture_sizes_mm |-> <<>>,
     min_aperture_mm |-> None, max_aperture_mm |-> None, units |-> "",
     aperture_count |-> 0]

ExtractRules(f) ==
    IF ~f.exists THEN RulesFailure
    ELSE
        LET units == RuleUnits(f)
            valid == ValidSizes(f)
            min_aperture == IF valid # <<>> THEN Some(SeqMin(valid)) ELSE None
            max_aperture == IF valid # <<>> THEN Some(SeqMax(valid)) ELSE None
            trace_width == TraceWidth(valid)
        IN  [success |-> TRUE,
             trace_width_mm |-> Round3OrNone(trace_width),
             min_spacing_mm |-> Round3OrNone(MinSpacing(trace_width, f.coords, units)),
             annular_ring_mm |-> Round3OrNone(AnnularRing(valid)),
             aperture_sizes_mm |-> SortSet({Round3(s) : s \in SeqToSet(valid)}),
             min_aperture_mm |-> Round3OrNone(min_aperture),
             max_aperture_mm |-> Round3OrNone(max_aperture),
             units |-> units,
             aperture_count |-> Len(valid)]

ExtractTraceWidthsAndSpacing ==
    /\ rresult = <<>>
    /\ rresult' = ExtractRules(rfile)
    /\ UNCHANGED <<rfile, gerberVars, drillVars, summaryVars, detectVars, sessionVars, layersVars, uploadVars, chatVars, initiativeVars, saveVars>>


----------------------------------------------------------------------------
(* generate_design_summary: the design files of one analysis *)

\* file_type is a free string tag; the ones of the model
GerberTypes == {"copper_top", "copper_bottom", "inner_layer_1", "layer_2_inner", "silk_top"}

\* "inner_layer" in file_type
HasInnerLayer(t) == t \in {"inner_layer_1"}

\* "inner" in file_type and "layer" in file_type
HasInnerAndLayer(t) == t \in {"inner_layer_1", "layer_2_inner"}

\* file_type.startswith("inner_layer_")
StartsWithInnerLayer(t) == t \in {"inner_layer_1"}

IsTopBottom(t) == t \in {"copper_top", "copper_bottom"}

Circle(d) == [attrs |-> "d", diameter |-> d, width |-> 0, height |-> 0]
XY(x, y) == [k |-> "XY", x |-> x, y |-> y]

\* The Gerber files the design files of the summary point to
SummaryGerbers ==
    {f \in
        {MissingFile,
         [exists |-> TRUE, lib |-> "ok", readable |-> TRUE, units |-> "IN",
          bounds |-> Some(<<<<0, 3000>>, <<500000, 2500000>>>>),
          apertures |-> <<Circle(200000)>>, tokens |-> <<>>],
         [exists |-> TRUE, lib |-> "ok", readable |-> TRUE, units |-> "MM",
          bounds |-> Some(<<<<500000, 2500000>>, <<0, 3000>>>>),
          apertures |-> <<Circle(200000), Circle(600000)>>, tokens |-> <<>>],
         [exists |-> TRUE, lib |-> "ok", readable |-> TRUE, units |-> "MM",
          bounds |-> None, apertures |-> <<>>, tokens |-> <<>>],
         [exists |-> TRUE, lib |-> "fails", readable |-> TRUE, units |-> "MM",
          bounds |-> None, apertures |-> <<>>,
          tokens |-> <<XY(0, 0), XY(150300, 300)>>],
         [exists |-> TRUE, lib |-> "fails", readable |-> TRUE, units |-> "IN",
          bounds |-> None, apertures |-> <<>>,
          tokens |-> <<XY(300, 0), XY(150300, 0)>>]} :
     f \in GerberFiles}

Hole == [k |-> "hole", t |-> "", d |-> 0]

SummaryDrills ==
    {f \in {NoDrillFile,
            [exists |-> TRUE, lines |-> <<>>],
            [exists |-> TRUE, lines |-> <<Hole, Hole>>]} : f \in DrillFiles}

\* A row of design_files: the file at file_path is gerber, drill or, for odbp,
\* only present or not
DesignFiles ==
    [file_format : {"gerber"}, file_type : GerberTypes, gerber : SummaryGerbers,
     drill : {NoDrillFile}, odbp_exists : {FALSE}]
    \cup [file_format : {"drill"}, file_type : {"drill"}, gerber : {NoGerberFile},
          drill : SummaryDrills, odbp_exists : {FALSE}]
    \cup [file_format : {"odbp"}, file_type : {"odbp_archive"}, gerber : {NoGerberFile},
          drill : {NoDrillFile}, odbp_exists : BOOLEAN]

----------------------------------------------------------------------------
(* generate_design_summary *)

\* d[k] = v on a dictionary
Put(d, k, v) == [x \in DOMAIN d \cup {k} |-> IF x = k THEN v ELSE d[x]]

\* d.get(k, 0)
Get0(d, k) == IF k \in DOMAIN d THEN d[k] ELSE 0

EmptyAcc ==
    [parsed_files |-> 0, board_dimensions |-> <<>>, layer_count |-> 0,
     file_types |-> <<>>, drill_statistics |-> <<>>, aperture_statistics |-> <<>>,
     total_vias |-> 0]

\* aperture_statistics after one parsed Gerber file
ApertureStats(stats, file_type, parsed) ==
    IF parsed.apertures_count > 0
    THEN Put(stats, file_type,
             [count |-> parsed.apertures_count, sizes |-> parsed.aperture_sizes,
              min |-> parsed.min_aperture_size, max |-> parsed.max_aperture_size])
    ELSE stats

\* width and height of one parsed Gerber file: from bounds when there are any
FileDims(parsed) ==
    IF parsed.bounds # None
    THEN LET b == Val(parsed.bounds)
         IN  <<Some(Abs(b.max_x - b.min_x)), Some(Abs(b.max_y - b.min_y))>>
    ELSE <<parsed.width, parsed.height>>

\* The first layer count: one per parsed Gerber file of a copper type
CountsAsLayer(t) ==
    \/ IsTopBottom(t)
    \/ HasInnerLayer(t) \/ HasInnerAndLayer(t)
    \/ StartsWithInnerLayer(t)

\* One pass of the loop over design_files
FileStep(acc, df) ==
    LET acc1 == [acc EXCEPT !.file_types = Put(@, df.file_type, Get0(@, df.file_type) + 1)]
    IN  IF df.file_format = "gerber" THEN
            LET parsed == ParseGerber(df.gerber)
                dims == FileDims(parsed)
                keep == Truthy(dims[1]) /\ Truthy(dims[2])
                        /\ Val(dims[1]) > 0 /\ Val(dims[2]) > 0
            IN  IF parsed.success
                THEN [acc1 EXCEPT
                        !.parsed_files = @ + 1,
                        !.aperture_statistics = ApertureStats(@, df.file_type, parsed),
                        !.board_dimensions =
                            IF keep
                            THEN Append(@, [width |-> Val(dims[1]), height |-> Val(dims[2]),
                                            file_type |-> df.file_type])
                            ELSE @,
                        !.layer_count = IF CountsAsLayer(df.file_type) THEN @ + 1 ELSE @]
                ELSE acc1
        ELSE IF df.file_format = "drill" THEN
            LET parsed == ParseDrill(df.drill)
            IN  IF parsed.success
                THEN [acc1 EXCEPT
                        !.parsed_files = @ + 1,
                        !.drill_statistics =
                            Put(@, df.file_type,
                                [total_holes |-> parsed.total_holes,
                                 tools_count |-> parsed.tools_count,
                                 min_hole_size_mm |-> parsed.min_hole_size_mm,
                                 max_hole_size_mm |-> parsed.max_hole_size_mm,
                                 unique_hole_sizes |-> parsed.unique_hole_sizes]),
                        !.total_vias = @ + parsed.total_holes]
                ELSE acc1
        ELSE IF df.file_format = "odbp" THEN
            IF df.odbp_exists THEN [acc1 EXCEPT !.parsed_files = @ + 1] ELSE acc1
        ELSE acc1

\* The state after the loop has passed files[1..i]
RECURSIVE FileLoop(_, _)
FileLoop(files, i) ==
    IF i = 0 THEN EmptyAcc ELSE FileStep(FileLoop(files, i - 1), files[i])

\* The dimension of the file read last, whatever the others reported
MaxDimLast(dims, field) == dims[Len(dims)][field]

\* max(d[field] for d in valid_dims)
MaxDim(dims, field) == SetMax({dims[i][field] : i \in DOMAIN dims})

\* The width and the height of the widest file, as one pair
BoardDimsMatchedPair(board_dimensions) ==
    IF board_dimensions # <<>>
    THEN LET widest == CHOOSE d \in SeqToSet(board_dimensions) :
                           d.width = MaxDim(board_dimensions, "width")
         IN  <<Some(Round2(widest.width)), Some(Round2(widest.height))>>
    ELSE <<None, None>>

\* board_width and board_height
BoardDims(board_dimensions) ==
    IF board_dimensions # <<>>
    THEN <<Some(Round2(MaxDim(board_dimensions, "width"))),
           Some(Round2(MaxDim(board_dimensions, "height")))>>
    ELSE <<None, None>>

\* The second layer count, over all design files; first is the loop's count
LayerCount(files, first) ==
    LET inner_layers == Cardinality({i \in DOMAIN files : HasInnerLayer(files[i].file_type)})
        top_bottom_layers == Cardinality({i \in DOMAIN files : IsTopBottom(files[i].file_type)})
    IN  IF inner_layers > 0 \/ top_bottom_layers > 0
        THEN IF inner_layers > 0 /\ top_bottom_layers = 0
             THEN inner_layers + 2
             ELSE top_bottom_layers + inner_layers
        ELSE first

RECURSIVE SumCounts(_, _)
SumCounts(stats, keys) ==
    IF keys = {} THEN 0
    ELSE LET k == CHOOSE x \in keys : TRUE
         IN  stats[k].count + SumCounts(stats, keys \ {k})

\* total_pads
TotalPads(aperture_statistics) ==
    SumCounts(aperture_statistics, DOMAIN aperture_statistics)

SummaryFailure ==
    [success |-> FALSE, file_count |-> 0, file_types |-> <<>>,
     board_width |-> None, board_height |-> None, layer_count |-> None,
     parsed_files_count |-> 0, drill_statistics |-> <<>>,
     aperture_statistics |-> <<>>, total_vias |-> 0, total_pads |-> 0]

\* generate_design_summary for an existing analysis with these design files.
\* total_size_mb, layer_details and the constant panel fields depend on nothing
\* else and nothing else depends on them; the saved result row returns
\* total_vias and total_pads as they were written.
Summarize(files) ==
    IF files = <<>> THEN SummaryFailure
    ELSE
        LET acc == FileLoop(files, Len(files))
            dims == BoardDims(acc.board_dimensions)
            layer_count == LayerCount(files, acc.layer_count)
        IN  [success |-> TRUE,
             file_count |-> Len(files),
             file_types |-> acc.file_types,
             board_width |-> dims[1],
             board_height |-> dims[2],
             layer_count |-> IF layer_count > 0 THEN Some(layer_count) ELSE None,
             parsed_files_count |-> acc.parsed_files,
             drill_statistics |-> acc.drill_statistics,
             aperture_statistics |-> acc.aperture_statistics,
             total_vias |-> acc.total_vias,
             total_pads |-> TotalPads(acc.aperture_statistics)]

\* The result generate_design_summary saves: the issue counts are the defaults
\* of AnalysisResult
ResultRow(s) ==
    [board_width |-> s.board_width, board_height |-> s.board_height,
     layer_count |-> s.layer_count, total_vias |-> s.total_vias,
     total_pads |-> s.total_pads,
     issues_critical |-> 0, issues_warning |-> 0, issues_info |-> 0]

\* What generate_design_summary returns for the analyses row an
SummaryOf(an, files) == IF an = None THEN SummaryFailure ELSE Summarize(files)

\* The analysis_results row after generate_design_summary (save_analysis_result
\* updates the row of the analysis or inserts one)
ResultAfterSummary(an, files, old) ==
    IF an = None \/ files = <<>> THEN old ELSE Some(ResultRow(Summarize(files)))

\* The status after generate_design_summary, had it no early returns
StatusAlwaysCompleted(an, files) == Some("completed")

\* The status of the analyses row after generate_design_summary
StatusAfterSummary(an, files) ==
    IF an = None \/ files = <<>> THEN an ELSE Some("completed")

GenerateDesignSummary ==
    /\ summary = <<>>
    /\ summary' = SummaryOf(analysis, design_files)
    /\ analysis_result' = ResultAfterSummary(analysis, design_files, analysis_result)
    /\ analysis' = StatusAfterSummary(analysis, design_files)
    /\ UNCHANGED <<design_files, analysis_id, analysis_issues, cam, fetched>>
    /\ UNCHANGED <<gerberVars, drillVars, rulesVars, detectVars, layersVars, uploadVars, chatVars, initiativeVars, saveVars>>

----------------------------------------------------------------------------
(* detect_file_format: the names and paths it is given *)

\* File names; "" stands for a name that is absent or empty
Names ==
    {"", "panel.zip", "PANEL.ZIP", "job.tgz", "job.tar.gz", "job.odb", "top.gbr",
     "top.ger", "top.art", "holes.drill", "notes.txt", "job"}

\* Entry names of a ZIP archive
Entries == {"top.gbr", "drill.exc", "layers/top.gbr", "steps/pcb/layers/top", "readme.md"}

\* A file_path argument: given is FALSE for None and "", base is
\* os.path.basename (empty for a path with a trailing separator), archive is the
\* namelist when the file opens as a ZIP archive, odb_dir tells that a directory
\* holds steps, matrix or layers, chars_token that one of the Gerber tokens lies
\* in the first 1000 characters of the decoded text and bytes_token that one lies
\* in the first 1000 bytes.
NoPath ==
    [given |-> FALSE, base |-> "", exists |-> FALSE, isdir |-> FALSE,
     archive |-> None, odb_dir |-> FALSE, chars_token |-> FALSE, bytes_token |-> FALSE]

MissingPaths ==
    [given : {TRUE}, base : Names, exists : {FALSE}, isdir : {FALSE},
     archive : {None}, odb_dir : {FALSE}, chars_token : {FALSE}, bytes_token : {FALSE}]

DirectoryPaths ==
    [given : {TRUE}, base : Names, exists : {TRUE}, isdir : {TRUE},
     archive : {None}, odb_dir : BOOLEAN, chars_token : {FALSE}, bytes_token : {FALSE}]

FilePaths ==
    {p \in [given : {TRUE}, base : Names \ {""}, exists : {TRUE}, isdir : {FALSE},
            archive : {None} \cup {Some(e) : e \in SUBSET Entries}, odb_dir : {FALSE},
            chars_token : BOOLEAN, bytes_token : BOOLEAN] :
        p.bytes_token => p.chars_token}

Paths == {NoPath} \cup MissingPaths \cup DirectoryPaths \cup FilePaths

----------------------------------------------------------------------------
(* detect_file_format *)

\* name.lower()
Lower(name) == IF name = "PANEL.ZIP" THEN "panel.zip" ELSE name

EndsWithZip(n) == n \in {"panel.zip"}
EndsWithOdb(n) == n \in {"job.tgz", "job.tar.gz", "job.odb"}
EndsWithGerber(n) == n \in {"top.gbr", "top.ger", "top.art", "holes.drill", "notes.txt"}

\* f.lower().endswith(('.ger', '.gbr', '.art', '.exc', '.drill'))
IsGerberEntry(e) == e \in {"top.gbr", "drill.exc", "layers/top.gbr"}

\* any(odb in f.lower() for odb in ['steps', 'matrix', 'layers'])
IsOdbEntry(e) == e \in {"layers/top.gbr", "steps/pcb/layers/top"}

\* A returned dictionary; "" stands for a key that is absent
Detection(success, format_type, confidence) ==
    [success |-> success, format_type |-> format_type, confidence |-> confidence]

\* The ZIP branch
DetectZip(path) ==
    IF path.given /\ path.exists /\ path.archive # None
          /\ \E e \in Val(path.archive) : IsGerberEntry(e)
    THEN Detection(TRUE, "gerber", "high")
    ELSE IF path.given /\ path.exists /\ path.archive # None
               /\ \E e \in Val(path.archive) : IsOdbEntry(e)
    THEN Detection(TRUE, "odbp", "high")
    ELSE Detection(TRUE, "gerber", "medium")

\* The detection from the content at file_path
DetectContent(path) ==
    IF path.given /\ path.exists /\ path.isdir /\ path.odb_dir
    THEN Detection(TRUE, "odbp", "medium")
    ELSE IF path.given /\ path.exists /\ ~path.isdir /\ path.chars_token
    THEN Detection(TRUE, "gerber", "medium")
    ELSE Detection(FALSE, "unknown", "")

DetectFormat(fname, path) ==
    LET name == IF fname # "" THEN fname ELSE IF path.given THEN path.base ELSE ""
        name_lower == Lower(name)
    IN  IF name = "" THEN Detection(FALSE, "", "")
        ELSE IF EndsWithZip(name_lower) THEN DetectZip(path)
        ELSE IF EndsWithOdb(name_lower) THEN Detection(TRUE, "odbp", "high")
        ELSE IF EndsWithGerber(name_lower) THEN Detection(TRUE, "gerber", "high")
        ELSE DetectContent(path)

DetectFileFormat ==
    /\ detected = <<>>
    /\ detected' = DetectFormat(filename, file_path)
    /\ UNCHANGED <<filename, file_path, gerberVars, drillVars, rulesVars, summaryVars, sessionVars, layersVars, uploadVars, chatVars, initiativeVars, saveVars>>

----------------------------------------------------------------------------
(* The database: analysis_issues *)

AnalysisIds == {1, 2}

Severities == {"critical", "warning", "info"}

\* A row of analysis_issues; id is the AUTOINCREMENT key
IssueRow(id, aid, issue_type, severity, layer_name) ==
    [id |-> id, analysis_id |-> aid, issue_type |-> issue_type,
     severity |-> severity, layer_name |-> layer_name]

\* The place of a severity in the order of the TEXT column (byte order)
TextRank(severity) ==
    CASE severity = "critical" -> 1
      [] severity = "info" -> 2
      [] severity = "warning" -> 3

\* ORDER BY severity DESC, id ASC: row a comes before row b
SortsBefore(a, b) ==
    \/ TextRank(a.severity) > TextRank(b.severity)
    \/ TextRank(a.severity) = TextRank(b.severity) /\ a.id < b.id

\* The rows of a set in the order of the query
RECURSIVE OrderedRows(_)
OrderedRows(rows) ==
    IF rows = {} THEN <<>>
    ELSE LET first == CHOOSE a \in rows : \A b \in rows \ {a} : SortsBefore(a, b)
         IN  <<first>> \o OrderedRows(rows \ {first})

\* SELECT * FROM analysis_issues WHERE analysis_id = ? ORDER BY severity DESC, id ASC
SelectIssues(rows, aid) ==
    OrderedRows({rows[i] : i \in {j \in DOMAIN rows : rows[j].analysis_id = aid}})

\* INSERT INTO analysis_issues
InsertIssue(rows, aid, issue_type, severity, layer_name) ==
    Append(rows, IssueRow(Len(rows) + 1, aid, issue_type, severity, layer_name))

SaveAnalysisIssue ==
    /\ Len(analysis_issues) < MaxIssues
    /\ \E aid \in AnalysisIds, severity \in Severities :
          analysis_issues' =
              InsertIssue(analysis_issues, aid, "trace_width", severity, "copper_top")
    /\ UNCHANGED <<analysis_id, analysis, analysis_result, cam, fetched>>
    /\ UNCHANGED <<gerberVars, drillVars, rulesVars, summaryVars, detectVars, layersVars, uploadVars, chatVars, initiativeVars, saveVars>>

GetAnalysisIssues ==
    /\ \E aid \in AnalysisIds :
          fetched' = Some([analysis_id |-> aid,
                           issues |-> SelectIssues(analysis_issues, aid)])
    /\ UNCHANGED <<databaseVars, cam>>
    /\ UNCHANGED <<gerberVars, drillVars, rulesVars, summaryVars, detectVars, layersVars, uploadVars, chatVars, initiativeVars, saveVars>>

----------------------------------------------------------------------------
(* perform_cam_analysis *)

\* cam_rules["min_trace_width"] (mm) and the number of issues returned
MinTraceWidth == 100000
ReturnLimit == 10

\* A Gerber design file of the given type
GerberDesignFile(file_type, f) ==
    [file_format |-> "gerber", file_type |-> file_type, gerber |-> f,
     drill |-> NoDrillFile, odbp_exists |-> FALSE]

\* Design files: 2 mm wide; 120 mm wide; one point only (width 0.0); without
\* bounds (width None); missing from disk; a drill file
NarrowFile ==
    GerberDesignFile("copper_top",
        [exists |-> TRUE, lib |-> "ok", readable |-> TRUE, units |-> "MM",
         bounds |-> Some(<<<<500000, 2500000>>, <<0, 3000>>>>),
         apertures |-> <<Circle(200000)>>, tokens |-> <<>>])

WideFile ==
    GerberDesignFile("copper_bottom",
        [exists |-> TRUE, lib |-> "ok", readable |-> TRUE, units |-> "MM",
         bounds |-> Some(<<<<0, 120000000>>, <<0, 80000000>>>>),
         apertures |-> <<Circle(200000)>>, tokens |-> <<>>])

PointFile ==
    GerberDesignFile("silk_top",
        [exists |-> TRUE, lib |-> "fails", readable |-> TRUE, units |-> "MM",
         bounds |-> None, apertures |-> <<>>, tokens |-> <<XY(0, 0)>>])

UnboundedFile ==
    GerberDesignFile("layer_2_inner",
        [exists |-> TRUE, lib |-> "ok", readable |-> TRUE, units |-> "MM",
         bounds |-> None, apertures |-> <<>>, tokens |-> <<>>])

LostFile == GerberDesignFile("inner_layer_1", MissingFile)

DrillDesignFile ==
    [file_format |-> "drill", file_type |-> "drill", gerber |-> NoGerberFile,
     drill |-> [exists |-> TRUE, lines |-> <<Hole>>], odbp_exists |-> FALSE]

OtherFiles ==
    {<<>>, <<WideFile>>, <<PointFile>>, <<UnboundedFile>>, <<LostFile>>,
     <<DrillDesignFile>>}

\* The design files of a session: narrow files between two other files
SessionFileLists ==
    {head \o [i \in 1..n |-> NarrowFile] \o tail :
        head \in OtherFiles, tail \in OtherFiles, n \in 0..MaxNarrow}

\* A result row and an issue row written before the calls
EarlierResult ==
    [board_width |-> None, board_height |-> None, layer_count |-> None,
     total_vias |-> 0, total_pads |-> 0,
     issues_critical |-> 1, issues_warning |-> 0, issues_info |-> 0]

EarlierIssues(aid) == <<IssueRow(1, aid, "trace_width", "critical", "copper_top")>>

\* The issue of one design file, as a list of none or one
FileIssues(df) ==
    LET parsed == ParseGerber(df.gerber)
    IN  IF /\ df.file_format = "gerber"
           /\ parsed.success
           /\ Truthy(parsed.width)
           /\ Val(parsed.width) < MinTraceWidth * 1000
        THEN <<[issue_type |-> "trace_width", severity |-> "warning",
                layer_name |-> df.file_type]>>
        ELSE <<>>

\* issues: the loop over the design files
RECURSIVE CamIssues(_)
CamIssues(files) ==
    IF files = <<>> THEN <<>> ELSE FileIssues(Head(files)) \o CamIssues(Tail(files))

CountSeverity(issues, severity) ==
    Cardinality({i \in DOMAIN issues : issues[i].severity = severity})

CamFailure ==
    [success |-> FALSE, issues_found |-> 0, issues_critical |-> 0,
     issues_warning |-> 0, issues_info |-> 0, issues |-> <<>>]

\* What perform_cam_analysis returns
CamAnalysis(an, files) ==
    IF an = None \/ files = <<>> THEN CamFailure
    ELSE LET issues == CamIssues(files)
         IN  [success |-> TRUE,
              issues_found |-> Len(issues),
              issues_critical |-> CountSeverity(issues, "critical"),
              issues_warning |-> CountSeverity(issues, "warning"),
              issues_info |-> CountSeverity(issues, "info"),
              issues |-> Prefix(issues, ReturnLimit)]

\* The rows of analysis_issues after perform_cam_analysis
RECURSIVE InsertIssues(_, _, _)
InsertIssues(rows, aid, issues) ==
    IF issues = <<>> THEN rows
    ELSE InsertIssues(InsertIssue(rows, aid, Head(issues).issue_type,
                                  Head(issues).severity, Head(issues).layer_name),
                      aid, Tail(issues))

IssuesAfterCam(an, files, rows, aid) ==
    IF an = None \/ files = <<>> THEN rows ELSE InsertIssues(rows, aid, CamIssues(files))

\* The analysis_results row after perform_cam_analysis: the counts are written
\* to the row that exists
ResultAfterCam(an, files, old) ==
    IF an = None \/ files = <<>> \/ old = None THEN old
    ELSE LET issues == CamIssues(files)
         IN  Some([Val(old) EXCEPT
                     !.issues_critical = CountSeverity(issues, "critical"),
                     !.issues_warning = CountSeverity(issues, "warning"),
                     !.issues_info = CountSeverity(issues, "info")])

PerformCamAnalysis ==
    /\ cam = <<>>
    /\ cam' = CamAnalysis(analysis, design_files)
    /\ analysis_issues' =
          IssuesAfterCam(analysis, design_files, analysis_issues, analysis_id)
    /\ analysis_result' = ResultAfterCam(analysis, design_files, analysis_result)
    /\ UNCHANGED <<design_files, summary, analysis_id, analysis, fetched>>
    /\ UNCHANGED <<gerberVars, drillVars, rulesVars, detectVars, layersVars, uploadVars, chatVars, initiativeVars, saveVars>>

\* generate_design_summary(analysis_id), called any number of times
GenerateDesignSummaryAgain ==
    /\ summary' = SummaryOf(analysis, design_files)
    /\ analysis_result' = ResultAfterSummary(analysis, design_files, analysis_result)
    /\ analysis' = StatusAfterSummary(analysis, design_files)
    /\ UNCHANGED <<design_files, analysis_id, analysis_issues, cam, fetched>>
    /\ UNCHANGED <<gerberVars, drillVars, rulesVars, detectVars, layersVars, uploadVars, chatVars, initiativeVars, saveVars>>

\* perform_cam_analysis(analysis_id), called any number of times while the
\* issue rows stay within MaxIssues
PerformCamAnalysisAgain ==
    /\ Len(IssuesAfterCam(analysis, design_files, analysis_issues, analysis_id)) <= MaxIssues
    /\ cam' = CamAnalysis(analysis, design_files)
    /\ analysis_issues' =
          IssuesAfterCam(analysis, design_files, analysis_issues, analysis_id)
    /\ analysis_result' = ResultAfterCam(analysis, design_files, analysis_result)
    /\ UNCHANGED <<design_files, summary, analysis_id, analysis, fetched>>
    /\ UNCHANGED <<gerberVars, drillVars, rulesVars, detectVars, layersVars, uploadVars, chatVars, initiativeVars, saveVars>>

----------------------------------------------------------------------------
(* analyze_all_layers_for_design_rules *)

LayerTypes == {"inner_layer", "inner_layer_1", "top_elec", "copper_top"}

\* "elec" in file_type.lower() or "inner_layer" in file_type.lower()
IsCopperType(t) == t \in {"inner_layer", "inner_layer_1", "top_elec"}

\* The files behind the design files: trace width 0.12 without a ring; trace
\* width 0.3 with a ring of 0.15; a ring of 0.0002; missing from disk
LayerRuleFiles ==
    {CircularFile(<<120000>>), CircularFile(<<300000, 600000>>),
     CircularFile(<<499600, 500000>>), NoRuleFile}

\* A design file row and, as rules, the file at its file_path
LayerFiles ==
    [file_format : {"gerber", "drill"}, file_type : LayerTypes, rules : LayerRuleFiles]

\* The design files whose extraction succeeded, in file order
AnalysedLayers(files) ==
    SelectSeq(files, LAMBDA df : /\ df.file_format = "gerber"
                                 /\ IsCopperType(df.file_type)
                                 /\ ExtractRules(df.rules).success)

\* layer_results: the result of the last analysed file of each file_type
LayerResults(files) ==
    LET done == AnalysedLayers(files)
    IN  [t \in {done[i].file_type : i \in DOMAIN done} |->
            ExtractRules(done[SetMax({i \in DOMAIN done : done[i].file_type = t})].rules)]

\* all_trace_widths, all_spacings, all_annular_rings: the truthy values of a field
AllValues(files, field) ==
    LET done == AnalysedLayers(files)
    IN  {Val(ExtractRules(done[i].rules)[field]) :
            i \in {j \in DOMAIN done : Truthy(ExtractRules(done[j].rules)[field])}}

\* round(min(values), 3) if values else None
OverallMin(files, field) ==
    LET values == AllValues(files, field)
    IN  IF values = {} THEN None ELSE Round3OrNone(Some(SetMin(values)))

AnalyzeLayers(files) ==
    [success |-> TRUE,
     min_trace_width_mm |-> OverallMin(files, "trace_width_mm"),
     min_spacing_mm |-> OverallMin(files, "min_spacing_mm"),
     min_annular_ring_mm |-> OverallMin(files, "annular_ring_mm"),
     layer_results |-> LayerResults(files)]

AnalyzeAllLayersForDesignRules ==
    /\ layers = <<>>
    /\ layers' = AnalyzeLayers(design_files)
    /\ UNCHANGED <<summaryVars, gerberVars, drillVars, rulesVars, detectVars, sessionVars, uploadVars, chatVars, initiativeVars, saveVars>>

----------------------------------------------------------------------------
(* upload_design_files: the files it is given *)

\* namelist() of the archives: with Gerber and drill entries; with two entries of
\* one base name; without a Gerber or drill entry
Archives ==
    {<<"a/top_copper.gbr", "drill.exc">>, <<"a/top_copper.gbr", "b/top_copper.gbr">>,
     <<"readme.md">>}

\* An element of files: decodable tells that base64.b64decode accepts content,
\* archive is the namelist when the bytes are a ZIP archive
UploadedFile(name, decodable, archive) ==
    [filename |-> name, file_type |-> "copper_top", decodable |-> decodable,
     archive |-> archive]

UploadFiles ==
    {UploadedFile("top.gbr", TRUE, None), UploadedFile("top.gbr", FALSE, None),
     UploadedFile("../1/top.gbr", TRUE, None), UploadedFile("job.tgz", TRUE, None),
     UploadedFile("panel.zip", TRUE, None)}
    \cup {UploadedFile("panel.zip", TRUE, Some(a)) : a \in Archives}

----------------------------------------------------------------------------
(* upload_design_files *)

\* filename.lower().endswith('.zip')
IsZipName(name) == name = "panel.zip"

\* f.lower().endswith(('.ger', '.gbr', '.art', '.drill', '.exc', '.txt'))
IsRelevantEntry(e) == e \in {"a/top_copper.gbr", "b/top_copper.gbr", "drill.exc"}

\* os.path.basename(zip_filename)
Basename(e) ==
    IF e \in {"a/top_copper.gbr", "b/top_copper.gbr"} THEN "top_copper.gbr" ELSE e

\* detected_type
DetectedType(e) ==
    IF e \in {"a/top_copper.gbr", "b/top_copper.gbr"} THEN "copper_top"
    ELSE IF e = "drill.exc" THEN "drill"
    ELSE "other"

\* file_format of an extracted entry
EntryFormat(safe_filename) == IF safe_filename = "drill.exc" THEN "drill" ELSE "gerber"

\* file_format of a regular file
FileFormat(name) == IF name = "job.tgz" THEN "odbp" ELSE "gerber"

\* The file that os.path.join(upload_dir, filename) names, as the analysis whose
\* upload directory holds it and the name inside that directory
JoinPath(aid, name) ==
    IF name = "../1/top.gbr" THEN <<1, "top.gbr">> ELSE <<aid, name>>

\* A row of design_files
DesignFileRow(aid, name, file_format, file_type, path) ==
    [analysis_id |-> aid, filename |-> name, file_format |-> file_format,
     file_type |-> file_type, file_path |-> path]

\* open(file_path, 'wb').write(...): the bytes are named by the upload they came from
WriteFile(store, path, aid, origin) ==
    [q \in DOMAIN store \cup {path} |->
        IF q = path THEN [written_by |-> aid, origin |-> origin] ELSE store[q]]

\* The loop over the relevant entries of one archive
RECURSIVE ExtractLoop(_, _, _, _)
ExtractLoop(st, aid, file_type, entries) ==
    IF entries = <<>> THEN st
    ELSE
        LET e == Head(entries)
            safe_filename == Basename(e)
            path == <<aid, safe_filename>>
            row == DesignFileRow(aid, safe_filename, EntryFormat(safe_filename),
                                 IF DetectedType(e) # "other" THEN DetectedType(e)
                                 ELSE file_type, path)
        IN  ExtractLoop([st EXCEPT !.store = WriteFile(st.store, path, aid, e),
                                   !.rows = Append(st.rows, row),
                                   !.uploaded_files = Append(st.uploaded_files, safe_filename)],
                        aid, file_type, Tail(entries))

\* One pass of the loop over files; ok turns FALSE at the first return of a failure
UploadOne(st, aid, file_data) ==
    IF ~file_data.decodable THEN [st EXCEPT !.ok = FALSE]
    ELSE IF IsZipName(file_data.filename)
    THEN IF file_data.archive = None THEN [st EXCEPT !.ok = FALSE]
         ELSE LET relevant_files == SelectSeq(Val(file_data.archive), IsRelevantEntry)
              IN  IF relevant_files = <<>> THEN [st EXCEPT !.ok = FALSE]
                  ELSE ExtractLoop(st, aid, file_data.file_type, relevant_files)
    ELSE LET path == JoinPath(aid, file_data.filename)
             row == DesignFileRow(aid, file_data.filename, FileFormat(file_data.filename),
                                  file_data.file_type, path)
         IN  [st EXCEPT !.store = WriteFile(st.store, path, aid, file_data.filename),
                        !.rows = Append(st.rows, row),
                        !.uploaded_files = Append(st.uploaded_files, file_data.filename)]

RECURSIVE UploadLoop(_, _, _)
UploadLoop(st, aid, files) ==
    IF files = <<>> \/ ~st.ok THEN st
    ELSE UploadLoop(UploadOne(st, aid, Head(files)), aid, Tail(files))

\* upload_design_files(files): create_analysis first, then the loop
UploadDesignFiles ==
    /\ Len(analyses_table) < Cardinality(AnalysisIds)
    /\ \E files \in SeqsUpTo(UploadFiles, MaxUploadFiles) :
          LET aid == Len(analyses_table) + 1
              st == UploadLoop([ok |-> TRUE, store |-> upload_store,
                                rows |-> design_files_table, uploaded_files |-> <<>>],
                               aid, files)
          IN  /\ analyses_table' = Append(analyses_table, "pending")
              /\ design_files_table' = st.rows
              /\ upload_store' = st.store
              /\ uploaded' = IF st.ok
                             THEN [success |-> TRUE, analysis_id |-> aid,
                                   uploaded_files |-> st.uploaded_files]
                             ELSE [success |-> FALSE, analysis_id |-> 0,
                                   uploaded_files |-> <<>>]
    /\ UNCHANGED <<gerberVars, drillVars, rulesVars, summaryVars, detectVars,
                   sessionVars, layersVars, chatVars, initiativeVars, saveVars>>

----------------------------------------------------------------------------
(* web_chat/backend/conversation_manager.py *)

\* The ids uuid.uuid4() gives, and an id that was never given
ConvIds == {"c1", "c2"}
UnknownId == "c9"

Roles == {"user", "assistant"}
Contents == {"hi", "reply"}

\* message (its timestamp is left out)
Message(role, content) == [role |-> role, content |-> content]

\* The id create_conversation gives: one that is not in use
NewConversationId(convs) == CHOOSE c \in ConvIds : c \notin DOMAIN convs

\* _conversations[conv_id] = {'id': conv_id, 'messages': [], ...}
WithConversation(convs, c) ==
    [d \in DOMAIN convs \cup {c} |-> IF d = c THEN <<>> ELSE convs[d]]

PrependMessage(convs, c, role, content) ==
    [convs EXCEPT ![c] = <<Message(role, content)>> \o @]

\* _conversations[conversation_id]['messages'].append(message)
AppendMessage(convs, c, role, content) ==
    [convs EXCEPT ![c] = Append(@, Message(role, content))]

CreateConversation ==
    /\ DOMAIN conversations # ConvIds
    /\ LET c == NewConversationId(conversations)
       IN  /\ conversations' = WithConversation(conversations, c)
           /\ conv_call' = [op |-> "create_conversation", conversation_id |-> c,
                            message |-> None, returned |-> Some(c)]
    /\ UNCHANGED sends
    /\ UNCHANGED <<gerberVars, drillVars, rulesVars, summaryVars, detectVars,
                   sessionVars, layersVars, uploadVars, initiativeVars, saveVars>>

\* add_message(conversation_id, role, content); returned is None after the
\* ValueError
AddMessage ==
    /\ \E c \in ConvIds \cup {UnknownId}, role \in Roles, content \in Contents :
          IF c \notin DOMAIN conversations
          THEN /\ conv_call' = [op |-> "add_message", conversation_id |-> c,
                                message |-> Some(Message(role, content)),
                                returned |-> None]
               /\ UNCHANGED conversations
          ELSE /\ Len(conversations[c]) < MaxMessages
               /\ conversations' = AppendMessage(conversations, c, role, content)
               /\ conv_call' = [op |-> "add_message", conversation_id |-> c,
                                message |-> Some(Message(role, content)),
                                returned |-> Some("None")]
    /\ UNCHANGED sends
    /\ UNCHANGED <<gerberVars, drillVars, rulesVars, summaryVars, detectVars,
                   sessionVars, layersVars, uploadVars, initiativeVars, saveVars>>

\* clear_conversation(conversation_id)
ClearConversation ==
    /\ \E c \in DOMAIN conversations :
          /\ conversations' = [conversations EXCEPT ![c] = <<>>]
          /\ conv_call' = [op |-> "clear_conversation", conversation_id |-> c,
                           message |-> None, returned |-> Some("None")]
    /\ UNCHANGED sends
    /\ UNCHANGED <<gerberVars, drillVars, rulesVars, summaryVars, detectVars,
                   sessionVars, layersVars, uploadVars, initiativeVars, saveVars>>

\* get_conversation(conversation_id): the messages of the dictionary it returns
GetConversation ==
    /\ \E c \in ConvIds \cup {UnknownId} :
          conv_call' = [op |-> "get_conversation", conversation_id |-> c,
                        message |-> None,
                        returned |-> IF c \in DOMAIN conversations
                                     THEN Some(conversations[c]) ELSE None]
    /\ UNCHANGED <<conversations, sends>>
    /\ UNCHANGED <<gerberVars, drillVars, rulesVars, summaryVars, detectVars,
                   sessionVars, layersVars, uploadVars, initiativeVars, saveVars>>

----------------------------------------------------------------------------
(* web_chat/backend/app.py: POST /api/chat, and chat_service.send_message *)

\* The JSON bodies of the requests: message, model and conversation_id are None
\* when the body has no such field
ChatBody(message, model, conversation_id) ==
    [message |-> message, model |-> model, conversation_id |-> conversation_id]

ChatBodies ==
    {ChatBody(None, None, None),
     ChatBody(Some("hi"), None, None),
     ChatBody(Some("hi"), Some("gemini-2.5-pro"), None),
     ChatBody(Some("hi"), None, Some("c1")),
     ChatBody(Some("hi"), Some("gemini-2.5-flash"), Some("c1")),
     ChatBody(Some("hi"), Some("gemini-2.5-pro"), Some("c1"))}

\* model, as chat() sets it
ChatModel(data) == "gemini-2.5-flash"

\* send_message up to its first await: pc tells where the call is
SendCall(data, model, conversation_id, pc) ==
    [body |-> data, model |-> model, conversation_id |-> conversation_id, pc |-> pc]

\* POST /api/chat with body data; api_key is what config.get_api_key() gives
Chat ==
    /\ Len(sends) < MaxSends
    /\ \E data \in ChatBodies, api_key \in BOOLEAN :
          /\ data.message # None
          /\ IF ~api_key
             THEN /\ sends' = Append(sends, SendCall(data, ChatModel(data), None, "raised"))
                  /\ UNCHANGED conversations
             ELSE IF data.conversation_id = None
             THEN /\ DOMAIN conversations # ConvIds
                  /\ LET c == NewConversationId(conversations)
                     IN  /\ conversations' =
                               AppendMessage(WithConversation(conversations, c), c,
                                             "user", Val(data.message))
                         /\ sends' = Append(sends, SendCall(data, ChatModel(data),
                                                            Some(c), "awaiting"))
             ELSE IF Val(data.conversation_id) \notin DOMAIN conversations
             THEN /\ sends' = Append(sends, SendCall(data, ChatModel(data),
                                                     data.conversation_id, "raised"))
                  /\ UNCHANGED conversations
             ELSE /\ conversations' =
                        AppendMessage(conversations, Val(data.conversation_id),
                                      "user", Val(data.message))
                  /\ sends' = Append(sends, SendCall(data, ChatModel(data),
                                                     data.conversation_id, "awaiting"))
    /\ UNCHANGED conv_call
    /\ UNCHANGED <<gerberVars, drillVars, rulesVars, summaryVars, detectVars,
                   sessionVars, layersVars, uploadVars, initiativeVars, saveVars>>

\* _call_gemini_agent returns: the reply is stored and the call returns
ModelReturns ==
    /\ \E i \in DOMAIN sends :
          /\ sends[i].pc = "awaiting"
          /\ conversations' = AppendMessage(conversations, Val(sends[i].conversation_id),
                                            "assistant", "reply")
          /\ sends' = [sends EXCEPT ![i].pc = "returned"]
    /\ UNCHANGED conv_call
    /\ UNCHANGED <<gerberVars, drillVars, rulesVars, summaryVars, detectVars,
                   sessionVars, layersVars, uploadVars, initiativeVars, saveVars>>

\* _call_gemini_agent raises: send_message ends with the exception
ModelRaises ==
    /\ \E i \in DOMAIN sends :
          /\ sends[i].pc = "awaiting"
          /\ sends' = [sends EXCEPT ![i].pc = "raised"]
    /\ UNCHANGED <<conversations, conv_call>>
    /\ UNCHANGED <<gerberVars, drillVars, rulesVars, summaryVars, detectVars,
                   sessionVars, layersVars, uploadVars, initiativeVars, saveVars>>

----------------------------------------------------------------------------
(* initiative_assistant: the stores and the queries *)

\* Texts are sequences of lower-case words
InitiativeTexts ==
    {[title |-> <<"robot">>, description |-> <<"the", "quality">>],
     [title |-> <<"robotics">>, description |-> <<>>],
     [title |-> <<"ai">>, description |-> <<"robot">>]}

PersonalInfos ==
    {[creator_name |-> "ann", creator_email |-> None, creator_contact |-> None],
     [creator_name |-> "bob", creator_email |-> Some("bob@x"),
      creator_contact |-> Some("555")]}

\* A row of initiatives; created_at grows with the id
InitiativeRow(id, text, personal) ==
    [id |-> id, title |-> text.title, description |-> text.description,
     creator_name |-> personal.creator_name, creator_email |-> personal.creator_email,
     creator_contact |-> personal.creator_contact, status |-> "proposed",
     created_at |-> id]

Stores(n) ==
    {[i \in 1..n |-> InitiativeRow(i, texts[i], personal[i])] :
        texts \in [1..n -> InitiativeTexts], personal \in [1..n -> PersonalInfos]}

\* The same rows with other personal fields
TwinsOf(store) ==
    {[i \in 1..Len(store) |->
        InitiativeRow(i, [title |-> store[i].title, description |-> store[i].description],
                      personal[i])] : personal \in [1..Len(store) -> PersonalInfos]}

SearchTitles == {<<>>, <<"robot">>, <<"the", "ai">>, <<"quality", "robotics">>}
SearchLimits == {1, DefaultLimit}

----------------------------------------------------------------------------
(* initiative_assistant: to_dict, search_similar_initiatives, get_initiative_details *)

ToDictPersonal(i) ==
    [id |-> i.id, title |-> i.title, description |-> i.description,
     status |-> i.status, created_at |-> i.created_at, creator_name |-> i.creator_name]

\* Initiative.to_dict(include_personal=False)
ToDict(i) ==
    [id |-> i.id, title |-> i.title, description |-> i.description,
     status |-> i.status, created_at |-> i.created_at]

StopWords == {"the"}
ShortWords == {"ai"}

\* search_terms
SearchTerms(title, description) ==
    Prefix(SelectSeq(title \o description,
                     LAMBDA w : w \notin StopWords /\ w \notin ShortWords), TermLimit)

\* text LIKE '%term%'
Like(text, term) ==
    \E k \in DOMAIN text : text[k] = term \/ (term = "robot" /\ text[k] = "robotics")

\* WHERE ... OR ...
Matches(row, terms) ==
    \E k \in DOMAIN terms : Like(row.title, terms[k]) \/ Like(row.description, terms[k])

\* ORDER BY created_at DESC LIMIT ?
RECURSIVE NewestFirst(_, _)
NewestFirst(store, terms) ==
    IF store = <<>> THEN <<>>
    ELSE LET last == store[Len(store)]
             rest == NewestFirst(SubSeq(store, 1, Len(store) - 1), terms)
         IN  IF Matches(last, terms) THEN <<last>> \o rest ELSE rest

\* InitiativeDatabase.search_similar
SearchSimilar(store, title, description, limit) ==
    IF SearchTerms(title, description) = <<>> THEN <<>>
    ELSE Prefix(NewestFirst(store, SearchTerms(title, description)), limit)

\* search_similar_initiatives(title, None, limit)
SearchSimilarInitiatives(store, title, limit) ==
    IF title = <<>> THEN [success |-> FALSE, count |-> 0, similar_initiatives |-> <<>>]
    ELSE LET similar == SearchSimilar(store, title, <<>>, limit)
         IN  [success |-> TRUE, count |-> Len(similar),
              similar_initiatives |-> [k \in DOMAIN similar |-> ToDict(similar[k])]]

\* get_initiative_details(initiative_id)
GetInitiativeDetails(store, initiative_id) ==
    IF initiative_id \in DOMAIN store
    THEN [success |-> TRUE, initiative |-> Some(ToDict(store[initiative_id]))]
    ELSE [success |-> FALSE, initiative |-> None]

CallSearchSimilar ==
    /\ tool_out = <<>>
    /\ \E title \in SearchTitles, limit \in SearchLimits :
          tool_out' = [tool |-> "search_similar_initiatives",
                       out |-> SearchSimilarInitiatives(initiatives, title, limit),
                       out_twin |-> SearchSimilarInitiatives(initiatives_twin, title, limit)]
    /\ UNCHANGED <<initiatives, initiatives_twin>>
    /\ UNCHANGED <<gerberVars, drillVars, rulesVars, summaryVars, detectVars,
                   sessionVars, layersVars, uploadVars, chatVars, saveVars>>

CallGetInitiative ==
    /\ tool_out = <<>>
    /\ \E id \in 1..(MaxInitiatives + 1) :
          tool_out' = [tool |-> "get_initiative_details",
                       out |-> GetInitiativeDetails(initiatives, id),
                       out_twin |-> GetInitiativeDetails(initiatives_twin, id)]
    /\ UNCHANGED <<initiatives, initiatives_twin>>
    /\ UNCHANGED <<gerberVars, drillVars, rulesVars, summaryVars, detectVars,
                   sessionVars, layersVars, uploadVars, chatVars, saveVars>>

----------------------------------------------------------------------------
(* database.save_analysis_result, called concurrently *)

\* total_pads of the AnalysisResult a call saves
SavedPads == {0, 4}

\* A row of analysis_results
SavedRow(aid, total_pads) == [analysis_id |-> aid, total_pads |-> total_pads]

\* A call: its arguments, its position, and what SELECT id ... fetched
Saver(aid, total_pads) ==
    [analysis_id |-> aid, total_pads |-> total_pads, pc |-> "called", existing |-> FALSE]

\* The rows of one analysis
RowsOf(table, aid) == {i \in DOMAIN table : table[i].analysis_id = aid}

\* SELECT id FROM analysis_results WHERE analysis_id = ?
SaveSelect ==
    /\ \E p \in DOMAIN savers :
          /\ savers[p].pc = "called"
          /\ savers' = [savers EXCEPT ![p].pc = "selected",
                                      ![p].existing = RowsOf(results_table, savers[p].analysis_id) # {}]
    /\ UNCHANGED results_table
    /\ UNCHANGED <<gerberVars, drillVars, rulesVars, summaryVars, detectVars,
                   sessionVars, layersVars, uploadVars, chatVars, initiativeVars>>

\* UPDATE analysis_results SET ... WHERE analysis_id = ?, commit and return
SaveUpdate ==
    /\ \E p \in DOMAIN savers :
          /\ savers[p].pc = "selected" /\ savers[p].existing
          /\ results_table' =
                [i \in DOMAIN results_table |->
                    IF results_table[i].analysis_id = savers[p].analysis_id
                    THEN SavedRow(savers[p].analysis_id, savers[p].total_pads)
                    ELSE results_table[i]]
          /\ savers' = [savers EXCEPT ![p].pc = "returned"]
    /\ UNCHANGED <<gerberVars, drillVars, rulesVars, summaryVars, detectVars,
                   sessionVars, layersVars, uploadVars, chatVars, initiativeVars>>

\* INSERT INTO analysis_results ...: analysis_id is UNIQUE, so the statement
\* raises sqlite3.IntegrityError when the analysis has a row by now
SaveInsert ==
    /\ \E p \in DOMAIN savers :
          /\ savers[p].pc = "selected" /\ ~savers[p].existing
          /\ IF RowsOf(results_table, savers[p].analysis_id) # {}
             THEN /\ savers' = [savers EXCEPT ![p].pc = "raised"]
                  /\ UNCHANGED results_table
             ELSE /\ results_table' =
                        Append(results_table,
                               SavedRow(savers[p].analysis_id, savers[p].total_pads))
                  /\ savers' = [savers EXCEPT ![p].pc = "returned"]
    /\ UNCHANGED <<gerberVars, drillVars, rulesVars, summaryVars, detectVars,
                   sessionVars, layersVars, uploadVars, chatVars, initiativeVars>>

----------------------------------------------------------------------------
(* Specifications: one per tool, each started on every file of its bounded set *)

IdleGerber == gfile = NoGerberFile /\ gresult = <<>>
IdleDrill == dfile = NoDrillFile /\ dresult = <<>>
IdleRules == rfile = NoRuleFile /\ rresult = <<>>
IdleSummary == design_files = <<>> /\ summary = <<>>
IdleDetect == filename = "" /\ file_path = NoPath /\ detected = <<>>

\* An analysis that was created and nothing else
IdleSession ==
    /\ analysis_id = SetMin(AnalysisIds)
    /\ analysis = Some("pending")
    /\ analysis_result = None
    /\ analysis_issues = <<>>
    /\ cam = <<>>
    /\ fetched = None

IdleLayers == layers = <<>>

\* An empty database and an empty uploads directory
IdleUpload ==
    /\ analyses_table = <<>>
    /\ design_files_table = <<>>
    /\ upload_store = <<>>
    /\ uploaded = <<>>

\* No conversation, no call
IdleChat ==
    /\ conversations = <<>>
    /\ conv_call = <<>>
    /\ sends = <<>>

\* No initiative stored, no tool called
IdleInitiative ==
    /\ initiatives = <<>>
    /\ initiatives_twin = <<>>
    /\ tool_out = <<>>

\* No result row, no call of save_analysis_result
IdleSave ==
    /\ results_table = <<>>
    /\ savers = <<>>

InitGerber ==
    /\ gfile \in GerberFiles
    /\ gresult = <<>>
    /\ IdleDrill /\ IdleRules /\ IdleSummary /\ IdleDetect /\ IdleSession /\ IdleLayers /\ IdleUpload /\ IdleChat /\ IdleInitiative /\ IdleSave

NextGerber == ParseGerberFile

SpecGerber == InitGerber /\ [][NextGerber]_vars

InitDrill ==
    /\ dfile \in DrillFiles
    /\ dresult = <<>>
    /\ IdleGerber /\ IdleRules /\ IdleSummary /\ IdleDetect /\ IdleSession /\ IdleLayers /\ IdleUpload /\ IdleChat /\ IdleInitiative /\ IdleSave

NextDrill == ParseDrillFile

SpecDrill == InitDrill /\ [][NextDrill]_vars

InitRules ==
    /\ rfile \in RuleFiles
    /\ rresult = <<>>
    /\ IdleGerber /\ IdleDrill /\ IdleSummary /\ IdleDetect /\ IdleSession /\ IdleLayers /\ IdleUpload /\ IdleChat /\ IdleInitiative /\ IdleSave

NextRules == ExtractTraceWidthsAndSpacing

SpecRules == InitRules /\ [][NextRules]_vars


InitSummary ==
    /\ design_files \in SeqsUpTo(DesignFiles, MaxFiles)
    /\ summary = <<>>
    /\ IdleGerber /\ IdleDrill /\ IdleRules /\ IdleDetect /\ IdleSession /\ IdleLayers /\ IdleUpload /\ IdleChat /\ IdleInitiative /\ IdleSave

NextSummary == GenerateDesignSummary

SpecSummary == InitSummary /\ [][NextSummary]_vars

InitDetect ==
    /\ filename \in Names
    /\ file_path \in Paths
    /\ detected = <<>>
    /\ IdleGerber /\ IdleDrill /\ IdleRules /\ IdleSummary /\ IdleSession /\ IdleLayers /\ IdleUpload /\ IdleChat /\ IdleInitiative /\ IdleSave

NextDetect == DetectFileFormat

SpecDetect == InitDetect /\ [][NextDetect]_vars

InitIssues ==
    /\ IdleSession
    /\ IdleGerber /\ IdleDrill /\ IdleRules /\ IdleSummary /\ IdleDetect /\ IdleLayers /\ IdleUpload /\ IdleChat /\ IdleInitiative /\ IdleSave

NextIssues == SaveAnalysisIssue \/ GetAnalysisIssues

SpecIssues == InitIssues /\ [][NextIssues]_vars

InitSession ==
    /\ analysis_id \in AnalysisIds
    /\ analysis \in {None, Some("pending")}
    /\ design_files \in SessionFileLists
    /\ analysis_result \in {None, Some(EarlierResult)}
    /\ analysis_issues \in {<<>>, EarlierIssues(analysis_id)}
    /\ summary = <<>> /\ cam = <<>> /\ fetched = None
    /\ IdleGerber /\ IdleDrill /\ IdleRules /\ IdleDetect /\ IdleLayers /\ IdleUpload /\ IdleChat /\ IdleInitiative /\ IdleSave

NextSession == GenerateDesignSummary \/ PerformCamAnalysis

SpecSession == InitSession /\ [][NextSession]_vars

\* A new analysis with its design files, no result row and no issue row
InitRepeat ==
    /\ analysis_id \in AnalysisIds
    /\ analysis = Some("pending")
    /\ design_files \in {l \in SessionFileLists : Len(l) <= MaxFiles}
    /\ analysis_result = None
    /\ analysis_issues = <<>>
    /\ summary = <<>> /\ cam = <<>> /\ fetched = None
    /\ IdleGerber /\ IdleDrill /\ IdleRules /\ IdleDetect /\ IdleLayers /\ IdleUpload /\ IdleChat /\ IdleInitiative /\ IdleSave

NextRepeat == GenerateDesignSummaryAgain \/ PerformCamAnalysisAgain

SpecRepeat == InitRepeat /\ [][NextRepeat]_vars

InitLayers ==
    /\ design_files \in SeqsUpTo(LayerFiles, MaxFiles)
    /\ summary = <<>>
    /\ layers = <<>>
    /\ IdleGerber /\ IdleDrill /\ IdleRules /\ IdleDetect /\ IdleSession /\ IdleUpload /\ IdleChat /\ IdleInitiative /\ IdleSave

NextLayers == AnalyzeAllLayersForDesignRules

SpecLayers == InitLayers /\ [][NextLayers]_vars

InitUpload ==
    /\ IdleUpload /\ IdleChat /\ IdleInitiative /\ IdleSave
    /\ IdleGerber /\ IdleDrill /\ IdleRules /\ IdleSummary /\ IdleDetect
    /\ IdleSession /\ IdleLayers /\ IdleChat /\ IdleInitiative /\ IdleSave

NextUpload == UploadDesignFiles

SpecUpload == InitUpload /\ [][NextUpload]_vars

InitChat ==
    /\ IdleChat /\ IdleInitiative /\ IdleSave
    /\ IdleGerber /\ IdleDrill /\ IdleRules /\ IdleSummary /\ IdleDetect
    /\ IdleSession /\ IdleLayers /\ IdleUpload /\ IdleInitiative /\ IdleSave

NextConversation ==
    CreateConversation \/ AddMessage \/ ClearConversation \/ GetConversation

SpecConversation == InitChat /\ [][NextConversation]_vars

NextChat == Chat \/ ModelReturns \/ ModelRaises

SpecChat == InitChat /\ [][NextChat]_vars

InitInitiative ==
    /\ \E n \in 0..MaxInitiatives :
          /\ initiatives \in Stores(n)
          /\ initiatives_twin \in TwinsOf(initiatives)
    /\ tool_out = <<>>
    /\ IdleGerber /\ IdleDrill /\ IdleRules /\ IdleSummary /\ IdleDetect
    /\ IdleSession /\ IdleLayers /\ IdleUpload /\ IdleChat /\ IdleSave

NextInitiative == CallSearchSimilar \/ CallGetInitiative

SpecInitiative == InitInitiative /\ [][NextInitiative]_vars

\* Up to MaxSavers calls are in flight; the table is empty or holds the row of
\* the first analysis
InitSave ==
    /\ results_table \in {<<>>, <<SavedRow(SetMin(AnalysisIds), SetMin(SavedPads))>>}
    /\ \E n \in 1..MaxSavers :
          savers \in [1..n -> {Saver(aid, pads) : aid \in AnalysisIds, pads \in SavedPads}]
    /\ IdleGerber /\ IdleDrill /\ IdleRules /\ IdleSummary /\ IdleDetect
    /\ IdleSession /\ IdleLayers /\ IdleUpload /\ IdleChat /\ IdleInitiative

NextSave == SaveSelect \/ SaveUpdate \/ SaveInsert

SpecSave == InitSave /\ [][NextSave]_vars

----------------------------------------------------------------------------
(* Claims about generate_design_summary (SpecSummary) *)

SummaryDone == summary # <<>> /\ summary.success

\* The design files in the order given by the permutation g of their indices
Reordered(files, g) == [i \in 1..Len(files) |-> files[g[i]]]

\* C1: the summary's board_width, board_height and layer_count are the same for
\* every ordering of the design files of the analysis.
C1_OrderIndependent ==
    SummaryDone =>
        \A g \in Permutations(1..Len(design_files)) :
            LET other == Summarize(Reordered(design_files, g))
            IN  /\ other.board_width = summary.board_width
                /\ other.board_height = summary.board_height
                /\ other.layer_count = summary.layer_count

\* Two different files that both give dimensions, summarised with a layer count
C1_Witness ==
    /\ SummaryDone
    /\ Len(design_files) = 2
    /\ design_files[1] # design_files[2]
    /\ Len(FileLoop(design_files, 2).board_dimensions) = 2
    /\ FileLoop(design_files, 2).board_dimensions[1].width
         # FileLoop(design_files, 2).board_dimensions[2].width
    /\ summary.board_width # None
    /\ summary.layer_count # None

\* T and I of the second layer count
TopBottomCount(files) == Cardinality({i \in DOMAIN files : IsTopBottom(files[i].file_type)})
InnerCount(files) == Cardinality({i \in DOMAIN files : HasInnerLayer(files[i].file_type)})

\* C2: layer_count is T + I when T > 0, I + 2 when T = 0 and I > 0, and absent when
\* T = I = 0, T counting the copper_top/copper_bottom files and I the files whose
\* type contains "inner_layer"; the first count never survives.
C2_LayerCountBySecondComputation ==
    SummaryDone =>
        LET T == TopBottomCount(design_files)
            I == InnerCount(design_files)
        IN  summary.layer_count =
                IF T > 0 THEN Some(T + I)
                ELSE IF I > 0 THEN Some(I + 2)
                ELSE None

\* A design file whose parse succeeded
ParsedOk(df) ==
    IF df.file_format = "gerber" THEN ParseGerber(df.gerber).success
    ELSE IF df.file_format = "drill" THEN ParseDrill(df.drill).success
    ELSE df.odbp_exists

\* C4: a file whose parse fails does not make the summary fail and contributes
\* nothing to layer_count, board_width, board_height, total_vias and total_pads,
\* which are those of the successfully parsed files alone.
C4_FailedFilesContributeNothing ==
    summary # <<>> =>
        LET parsed == Summarize(SelectSeq(design_files, ParsedOk))
        IN  /\ design_files # <<>> => summary.success
            /\ summary.layer_count = parsed.layer_count
            /\ summary.board_width = parsed.board_width
            /\ summary.board_height = parsed.board_height
            /\ summary.total_vias = parsed.total_vias
            /\ summary.total_pads = parsed.total_pads

\* The parse results of the Gerber files that succeeded and reported both
\* width > 0 and height > 0
QualifyingParses(files) ==
    {ParseGerber(files[i].gerber) :
        i \in {j \in DOMAIN files :
                 /\ files[j].file_format = "gerber"
                 /\ ParseGerber(files[j].gerber).success
                 /\ Truthy(ParseGerber(files[j].gerber).width)
                 /\ Truthy(ParseGerber(files[j].gerber).height)}}

\* C7 as stated: board_width is the largest width and board_height the largest
\* height over the qualifying files, each axis on its own; absent when none.
C7_BoardDimsAreMaxima ==
    SummaryDone =>
        LET q == QualifyingParses(design_files)
        IN  IF q = {} THEN summary.board_width = None /\ summary.board_height = None
            ELSE /\ summary.board_width = Some(SetMax({Val(r.width) : r \in q}))
                 /\ summary.board_height = Some(SetMax({Val(r.height) : r \in q}))

\* C7 amended: board_width is the largest width rounded to two decimals and
\* board_height the largest height rounded to two decimals, each axis on its own
\* over the qualifying files; both are absent when no file qualifies.
C7_BoardDimsAreRoundedMaxima ==
    SummaryDone =>
        LET q == QualifyingParses(design_files)
        IN  IF q = {} THEN summary.board_width = None /\ summary.board_height = None
            ELSE /\ summary.board_width = Some(Round2(SetMax({Val(r.width) : r \in q})))
                 /\ summary.board_height = Some(Round2(SetMax({Val(r.height) : r \in q})))

\* Two qualifying files, the widest of which is not the tallest
C7_Witness ==
    /\ SummaryDone
    /\ Len(design_files) = 2
    /\ Cardinality(QualifyingParses(design_files)) = 2
    /\ \E a, b \in QualifyingParses(design_files) :
          Val(a.width) > Val(b.width) /\ Val(a.height) < Val(b.height)
    /\ summary.board_width # None /\ summary.board_height # None

\* C8: total_pads is the sum of apertures_count over the successfully parsed Gerber
\* files that reported at least one aperture, also when files share a file_type.
C8_TotalPadsIsSum ==
    SummaryDone =>
        LET counted == {i \in DOMAIN design_files :
                          /\ design_files[i].file_format = "gerber"
                          /\ ParseGerber(design_files[i].gerber).success
                          /\ ParseGerber(design_files[i].gerber).apertures_count > 0}
            RECURSIVE Sum(_)
            Sum(I) == IF I = {} THEN 0
                      ELSE LET i == CHOOSE x \in I : TRUE
                           IN  ParseGerber(design_files[i].gerber).apertures_count
                               + Sum(I \ {i})
        IN  summary.total_pads = Sum(counted)

----------------------------------------------------------------------------
(* Claims about parse_gerber_file (SpecGerber) *)

GerberDone == gresult # <<>> /\ gresult.success

\* C3: no outward-facing length is the number 0: the heuristic tier reports a
\* width or height of extent 0 as None, and the summary's board_width and
\* board_height are None or strictly positive.
C3_NoZeroLength ==
    /\ (GerberDone /\ gresult.note) =>
          gresult.width # Some(0) /\ gresult.height # Some(0)
    /\ SummaryDone =>
          summary.board_width # Some(0) /\ summary.board_height # Some(0)

\* The sizes of the aperture table, as min(width, height) where there are both
SizesByMin(aps) ==
    {IF aps[i].attrs = "wh" THEN RectSize(aps[i].width, aps[i].height)
     ELSE IF aps[i].attrs = "w" THEN aps[i].width ELSE aps[i].diameter :
        i \in {j \in DOMAIN aps : aps[j].attrs # "none"}}

\* C5: for a file that declares inches, every length parse_gerber_file returns
\* (width, height, bounds, aperture sizes) is the raw value times 25.4, in the
\* full-geometry tier as in the heuristic tier.
C5_InchesTimes254 ==
    (GerberDone /\ gfile.units = "IN") =>
        IF gresult.note
        THEN LET xy == {i \in DOMAIN gfile.tokens : gfile.tokens[i].k = "XY"}
                 xs == {gfile.tokens[i].x : i \in xy}
                 ys == {gfile.tokens[i].y : i \in xy}
             IN  xy # {} =>
                    /\ gresult.width = Some(Times254((SetMax(xs) - SetMin(xs)) * 10))
                    /\ gresult.height = Some(Times254((SetMax(ys) - SetMin(ys)) * 10))
        ELSE /\ gresult.width # None =>
                  LET xb == AxisMinMax(Val(gfile.bounds)[1])
                      yb == AxisMinMax(Val(gfile.bounds)[2])
                  IN  /\ gresult.width = Some(Times254(Abs(xb[2] - xb[1])))
                      /\ gresult.height = Some(Times254(Abs(yb[2] - yb[1])))
                      /\ Val(gresult.bounds).max_x = Times254(xb[2])
                      /\ Val(gresult.bounds).min_x = Times254(xb[1])
             /\ gresult.min_aperture_size # None =>
                  Val(gresult.min_aperture_size)
                      = Times254(SeqMin(CollectApertureSizes(gfile.apertures)))

\* C10: an aperture declared with a width and a height enters the aperture-size
\* statistics as min(width, height), in the Gerber parser's aperture table as in
\* the design-rule extractor.
C10_RectReducedToMin ==
    /\ (GerberDone /\ ~gresult.note) =>
          SeqToSet(gresult.aperture_sizes) = SizesByMin(gfile.apertures)
    /\ (rresult # <<>> /\ rresult.success /\ rfile.units = "MM") =>
          \A i \in DOMAIN rfile.apertures :
              LET a == rfile.apertures[i]
                  m == IF a.w < a.h THEN a.w ELSE a.h
              IN  (a.shape = "R" /\ ValidSize(m)) =>
                      Round3(m) \in SeqToSet(rresult.aperture_sizes_mm)

----------------------------------------------------------------------------
(* Claims about parse_drill_file (SpecDrill) *)

\* C6: with a non-empty tool table, min_hole_size_mm and max_hole_size_mm are the
\* smallest and the largest element of hole_sizes_mm (millimetres).
C6_HoleSizeBoundsInMm ==
    (dresult # <<>> /\ dresult.success /\ dresult.tools_count > 0) =>
        /\ dresult.min_hole_size_mm = Some(dresult.hole_sizes_mm[1])
        /\ dresult.max_hole_size_mm
             = Some(dresult.hole_sizes_mm[Len(dresult.hole_sizes_mm)])

----------------------------------------------------------------------------
(* Claims about extract_trace_widths_and_spacing (SpecRules) *)

NoneOrPositive(o) == o = None \/ Val(o) > 0

\* C9: in every successful result each of trace_width_mm, min_spacing_mm,
\* annular_ring_mm, min_aperture_mm and max_aperture_mm is None or strictly
\* positive, also after rounding to three decimals.
C9_NoneOrPositive ==
    (rresult # <<>> /\ rresult.success) =>
        /\ NoneOrPositive(rresult.trace_width_mm)
        /\ NoneOrPositive(rresult.min_spacing_mm)
        /\ NoneOrPositive(rresult.annular_ring_mm)
        /\ NoneOrPositive(rresult.min_aperture_mm)
        /\ NoneOrPositive(rresult.max_aperture_mm)

RulesDone == rresult # <<>> /\ rresult.success

\* The valid sizes of the file, as a set (0.001 < size < 100 mm after conversion)
ValidSet == SeqToSet(ValidSizes(rfile))

\* The valid sizes inside the trace-width band [0.05, 0.5] mm
BandSet == {s \in ValidSet : 50000 <= s /\ s <= 500000}

\* The trace width the band rule selects, None without a valid size
BandMin ==
    IF BandSet # {} THEN Some(SetMin(BandSet))
    ELSE IF ValidSet # {} THEN Some(SetMin(ValidSet))
    ELSE None

\* C11 as stated: trace_width_mm is the smallest valid size inside [0.05, 0.5] mm
\* when one lies there, otherwise the smallest valid size, and None exactly when
\* there is no valid size; for the sizes {0.03, 0.12, 0.8} it is 0.12.
C11_TraceWidthIsBandMin ==
    RulesDone =>
        /\ rresult.trace_width_mm = BandMin
        /\ (rresult.trace_width_mm = None) <=> (ValidSet = {})
        /\ rfile = BandExampleFile => rresult.trace_width_mm = Some(120000)

\* C11 amended: trace_width_mm is that size rounded to three decimals, and None
\* exactly when there is no valid size; for {0.03, 0.12, 0.8} it is 0.12.
C11_TraceWidthIsRoundedBandMin ==
    RulesDone =>
        /\ rresult.trace_width_mm =
              (IF BandMin = None THEN None ELSE Some(Round3(Val(BandMin))))
        /\ (rresult.trace_width_mm = None) <=> (ValidSet = {})
        /\ rfile = BandExampleFile => rresult.trace_width_mm = Some(120000)

\* A valid size below the band next to one inside it: the one inside is reported
C11_Witness ==
    /\ RulesDone
    /\ BandSet # {}
    /\ \E s \in ValidSet : s < 50000
    /\ rresult.trace_width_mm = Some(SetMin(BandSet))

\* The pad sizes (>= 0.5 mm) and the via sizes (< 0.5 mm) among the valid sizes
PadSet == {s \in ValidSet : s >= 500000}
ViaSet == {s \in ValidSet : s < 500000}

\* The annular ring the pad/via rule gives, None with fewer than two distinct sizes
PadViaRing ==
    IF PadSet # {} /\ ViaSet # {} THEN Some((SetMin(PadSet) - SetMax(ViaSet)) \div 2)
    ELSE IF Cardinality(ValidSet) >= 2
    THEN Some((SetMax(ValidSet) - SetMin(ValidSet)) \div 2)
    ELSE None

\* C12 as stated: annular_ring is (smallest size >= 0.5 - largest size < 0.5) / 2
\* when both classes are non-empty, otherwise (max - min) / 2 with at least two
\* distinct valid sizes, otherwise None; for {0.3, 0.6, 0.9} it is 0.15.
C12_AnnularRingIsPadViaGap ==
    RulesDone =>
        /\ rresult.annular_ring_mm = PadViaRing
        /\ rfile = PadViaExampleFile => rresult.annular_ring_mm = Some(150000)

\* C12 amended: annular_ring_mm is that value rounded to three decimals (a ring
\* below 0.0005 mm is reported as 0.0), None with fewer than two distinct sizes.
C12_AnnularRingIsRoundedPadViaGap ==
    RulesDone =>
        /\ rresult.annular_ring_mm =
              (IF PadViaRing = None THEN None ELSE Some(Round3(Val(PadViaRing))))
        /\ rfile = PadViaExampleFile => rresult.annular_ring_mm = Some(150000)

\* Two pads and a via: the ring is measured from the smaller pad
C12_Witness ==
    /\ RulesDone
    /\ Cardinality(PadSet) >= 2 /\ ViaSet # {}
    /\ rresult.annular_ring_mm = Some(Round3((SetMin(PadSet) - SetMax(ViaSet)) \div 2))
    /\ rresult.annular_ring_mm # Some(Round3((SetMax(ValidSet) - SetMin(ValidSet)) \div 2))

----------------------------------------------------------------------------
(* Claims about detect_file_format (SpecDetect) *)

\* The name the detector looks at: the filename, else the last component of file_path
DetectName == Lower(IF filename # "" THEN filename ELSE file_path.base)

ArchiveOpens == file_path.given /\ file_path.exists /\ file_path.archive # None

\* The outcome of the first matching rule of the priority list
FirstMatchingRule ==
    IF EndsWithZip(DetectName)
    THEN IF ArchiveOpens /\ \E e \in Val(file_path.archive) : IsGerberEntry(e)
         THEN Detection(TRUE, "gerber", "high")
         ELSE IF ArchiveOpens /\ \E e \in Val(file_path.archive) : IsOdbEntry(e)
         THEN Detection(TRUE, "odbp", "high")
         ELSE Detection(TRUE, "gerber", "medium")
    ELSE IF EndsWithOdb(DetectName) THEN Detection(TRUE, "odbp", "high")
    ELSE IF EndsWithGerber(DetectName) THEN Detection(TRUE, "gerber", "high")
    ELSE IF file_path.exists /\ file_path.isdir /\ file_path.odb_dir
    THEN Detection(TRUE, "odbp", "medium")
    ELSE IF file_path.exists /\ ~file_path.isdir /\ file_path.bytes_token
    THEN Detection(TRUE, "gerber", "medium")
    ELSE Detection(FALSE, "unknown", "")

\* C13: detect_file_format decides by the first matching rule of the priority
\* list (.zip by archive contents with gerber/medium as fallback, then the ODB++
\* extensions, then the Gerber extensions, then a directory with ODB++
\* structure, then a Gerber token in the first 1000 bytes, otherwise failure
\* with format_type unknown); a .zip name never fails and an archive with both
\* Gerber entries and ODB++ structure is gerber/high.
C13_FirstMatchingRule ==
    detected # <<>> => detected = FirstMatchingRule

----------------------------------------------------------------------------
(* Claims about the tool usage scan of parse_drill_file (SpecDrill) *)

DrillDone == dresult # <<>> /\ dresult.success

\* Line i matches T<digits>
SelectsTool(i) == dfile.lines[i].k \in {"tdef", "tsel", "tselhole"}

\* Line i contains both X and Y
HasXY(i) == dfile.lines[i].k \in {"hole", "xy", "tselhole"}

\* The lines with X and Y that come after a line selecting tool t and before the
\* next tool-selecting line
LinesOfTool(t) ==
    {i \in DOMAIN dfile.lines :
        /\ HasXY(i)
        /\ \E s \in 1..(i - 1) :
              /\ SelectsTool(s) /\ dfile.lines[s].t = t
              /\ \A m \in (s + 1)..i : ~SelectsTool(m)}

\* C14: holes_by_tool[t] is the number of lines containing both X and Y that
\* come after a line selecting tool t and before the next tool-selecting line;
\* every tool id seen on a T<digits> line has an entry; for the table T01C0.0250,
\* T02C0.0394 with two coordinate lines after T01 and one after T02 the result
\* is {"01": 2, "02": 1}.
C14_HolesByToolCountsFollowingLines ==
    DrillDone =>
        /\ DOMAIN dresult.holes_by_tool =
              {dfile.lines[i].t : i \in {j \in DOMAIN dfile.lines : SelectsTool(j)}}
        /\ \A t \in DOMAIN dresult.holes_by_tool :
              dresult.holes_by_tool[t] = Cardinality(LinesOfTool(t))
        /\ dfile = DrillExampleFile =>
              dresult.holes_by_tool = [t \in {"01", "02"} |-> IF t = "01" THEN 2 ELSE 1]

----------------------------------------------------------------------------
(* Claims about the database (SpecIssues) *)

\* The place of a severity in the order critical, warning, info
SeverityLevel(severity) ==
    CASE severity = "critical" -> 3
      [] severity = "warning" -> 2
      [] severity = "info" -> 1

\* C15: get_analysis_issues returns the issues of the analysis with every critical
\* issue before every warning and every warning before every info, and issues of
\* equal severity in insertion order, for any sequence of save_analysis_issue calls.
C15_SeverityDescendingThenInsertion ==
    fetched # None =>
        LET issues == Val(fetched).issues
        IN  \A i, j \in DOMAIN issues :
               i < j =>
                  \/ SeverityLevel(issues[i].severity) > SeverityLevel(issues[j].severity)
                  \/ /\ issues[i].severity = issues[j].severity
                     /\ issues[i].id < issues[j].id

----------------------------------------------------------------------------
(* Claims about perform_cam_analysis and generate_design_summary (SpecSession) *)

CamDone == cam # <<>> /\ cam.success

\* The files whose issue the rule asks for: Gerber files whose parse succeeded
\* with a width present and below min_trace_width * 1000
NarrowIndexes(files) ==
    {i \in DOMAIN files :
        /\ files[i].file_format = "gerber"
        /\ ParseGerber(files[i].gerber).success
        /\ ParseGerber(files[i].gerber).width # None
        /\ Val(ParseGerber(files[i].gerber).width) < MinTraceWidth * 1000}

\* C16: perform_cam_analysis returns exactly, in file order, one warning
\* trace_width issue with layer_name = file_type for each Gerber file whose parse
\* succeeded with a width present and below min_trace_width * 1000; issues_found
\* and issues_warning are the length of the returned list, for any number of files.
C16_OneWarningPerNarrowFile ==
    CamDone =>
        LET narrow == SortSet(NarrowIndexes(design_files))
        IN  /\ cam.issues =
                  [k \in DOMAIN narrow |->
                      [issue_type |-> "trace_width", severity |-> "warning",
                       layer_name |-> design_files[narrow[k]].file_type]]
            /\ cam.issues_found = Len(cam.issues)
            /\ cam.issues_warning = Len(cam.issues)

\* C17: after every successful perform_cam_analysis a result row exists for the
\* analysis and its issues_critical, issues_warning and issues_info are the
\* tallies the call returned, whether or not generate_design_summary ran before.
C17_TalliesPersisted ==
    [][(cam = <<>> /\ cam' # <<>> /\ cam'.success) =>
          /\ analysis_result' # None
          /\ Val(analysis_result').issues_critical = cam'.issues_critical
          /\ Val(analysis_result').issues_warning = cam'.issues_warning
          /\ Val(analysis_result').issues_info = cam'.issues_info]_vars

\* C18: generate_design_summary and perform_cam_analysis fail when the analysis
\* is unknown or has no design files, and then write nothing: no result row, no
\* issue row, and the status of the analysis stays as it was.
C18_FailureWritesNothing ==
    [][(analysis = None \/ design_files = <<>>) =>
          /\ summary' # summary => ~summary'.success
          /\ cam' # cam => ~cam'.success
          /\ UNCHANGED <<analysis, analysis_result, analysis_issues>>]_vars

\* Both tools were called for an analysis without design files; the rows written
\* earlier are still there
C18_Witness ==
    /\ analysis = Some("pending") /\ design_files = <<>>
    /\ summary # <<>> /\ ~summary.success
    /\ cam # <<>> /\ ~cam.success
    /\ analysis_result = Some(EarlierResult)
    /\ analysis_issues = EarlierIssues(analysis_id)

----------------------------------------------------------------------------
(* Claims about the tiers of parse_gerber_file (SpecGerber) *)

\* C19: for any path that exists parse_gerber_file returns success (a failure of
\* the full-geometry tier degrades to the heuristic tier, a failure of the
\* heuristic tier to a parsed-but-empty result); success = false is returned
\* only when the file does not exist.
C19_SuccessIffExists ==
    gresult # <<>> => (gresult.success <=> gfile.exists)

----------------------------------------------------------------------------
(* Claims about analyze_all_layers_for_design_rules (SpecLayers) *)

LayersDone == layers # <<>> /\ layers.success

\* The smallest value of a field over the entries of the returned map, None when
\* no entry has one
MinOverEntries(field) ==
    LET present == {t \in DOMAIN layers.layer_results :
                       layers.layer_results[t][field] # None}
    IN  IF present = {} THEN None
        ELSE Some(SetMin({Val(layers.layer_results[t][field]) : t \in present}))

\* C20: the returned per-layer map has one entry for every successfully analysed
\* Gerber file whose file_type contains elec or inner_layer, and each overall
\* minimum (trace width, spacing, annular ring) is the minimum of that field
\* over the entries of the returned map.
C20_MinimaOverReturnedMap ==
    LayersDone =>
        /\ Cardinality(DOMAIN layers.layer_results) = Len(AnalysedLayers(design_files))
        /\ layers.min_trace_width_mm = MinOverEntries("trace_width_mm")
        /\ layers.min_spacing_mm = MinOverEntries("min_spacing_mm")
        /\ layers.min_annular_ring_mm = MinOverEntries("annular_ring_mm")

\* C21: an operation on one analysis session never reads or modifies the stored
\* files, design-file records, result row or issue rows of a different analysis,
\* for any filenames the uploader supplies.  For upload_design_files, which
\* opens a session of its own: every file stored before the call is still there
\* with the bytes it had, every design-file record is unchanged, and the new
\* records name files in the directory of the new analysis.
C21_SessionsIsolated ==
    [][/\ \A p \in DOMAIN upload_store :
            p \in DOMAIN upload_store' /\ upload_store'[p] = upload_store[p]
       /\ \A i \in 1..Len(design_files_table) :
            i <= Len(design_files_table') /\ design_files_table'[i] = design_files_table[i]
       /\ \A i \in (Len(design_files_table) + 1)..Len(design_files_table') :
            design_files_table'[i].file_path[1] = design_files_table'[i].analysis_id]_vars

\* C30: when upload_design_files returns success=false, the call leaves the store
\* as it was: no analysis record, no design-file record and no stored file created
\* by that call remains, whatever the position of the offending file in the list.
C30_FailedUploadLeavesNothing ==
    [][(uploaded' # uploaded /\ ~uploaded'.success) =>
          UNCHANGED <<analyses_table, design_files_table, upload_store>>]_vars

\* C22: after any sequence of add_message calls on an existing conversation, with
\* no clear in between, get_conversation returns that conversation's messages
\* in exactly the order of the calls, each with the role and content it was
\* given, and the messages of every other conversation are unchanged: every
\* add_message that returns puts its message at the end of its conversation
\* and changes nothing else, and get_conversation returns the stored messages.
C22_MessagesInCallOrder ==
    [][/\ (conv_call'.op = "add_message" /\ conv_call'.returned # None) =>
            LET c == conv_call'.conversation_id
            IN  /\ c \in DOMAIN conversations
                /\ DOMAIN conversations' = DOMAIN conversations
                /\ conversations'[c] = Append(conversations[c], Val(conv_call'.message))
                /\ \A d \in DOMAIN conversations \ {c} :
                      conversations'[d] = conversations[d]
       /\ conv_call'.op = "get_conversation" =>
            /\ UNCHANGED conversations
            /\ conv_call'.returned =
                  IF conv_call'.conversation_id \in DOMAIN conversations
                  THEN Some(conversations[conv_call'.conversation_id]) ELSE None]_vars

\* Two messages were added to one conversation and one to another, and
\* get_conversation returned the two in the order of the calls
C22_Witness ==
    /\ conv_call # <<>> /\ conv_call.op = "get_conversation"
    /\ conv_call.conversation_id = "c1"
    /\ conv_call.returned = Some(<<Message("assistant", "reply"), Message("user", "hi")>>)
    /\ "c2" \in DOMAIN conversations /\ conversations["c2"] = <<Message("user", "reply")>>

\* C23: when the body of POST /api/chat names a model, that model is the one
\* passed to send_message as its second positional argument.
C23_BodyModelPassed ==
    \A i \in DOMAIN sends :
        sends[i].body.model # None => sends[i].model = Val(sends[i].body.model)

\* C28: in every conversation written only by send_message the stored messages
\* strictly alternate user, assistant, user, assistant, ..., for any interleaving
\* of send_message calls on the same conversation and also when the model call
\* raises.
C28_RolesAlternate ==
    \A c \in DOMAIN conversations :
        \A i \in DOMAIN conversations[c] :
            conversations[c][i].role = IF i % 2 = 1 THEN "user" ELSE "assistant"

\* The dictionaries of initiatives inside a tool output
ReturnedInitiatives(out) ==
    IF "similar_initiatives" \in DOMAIN out
    THEN SeqToSet(out.similar_initiatives)
    ELSE IF out.initiative = None THEN {} ELSE {Val(out.initiative)}

PersonalFields == {"creator_name", "creator_email", "creator_contact"}

\* C24: the outputs of search_similar_initiatives and get_initiative_details
\* never contain creator_name, creator_email or creator_contact: two stores that
\* differ only in those personal fields produce identical tool outputs for every
\* query.
C24_NoPersonalInfo ==
    tool_out # <<>> =>
        /\ tool_out.out = tool_out.out_twin
        /\ \A d \in ReturnedInitiatives(tool_out.out) : DOMAIN d \cap PersonalFields = {}

\* A search returned an initiative whose personal fields differ in the two stores
C24_Witness ==
    /\ tool_out # <<>> /\ tool_out.tool = "search_similar_initiatives"
    /\ tool_out.out.success /\ tool_out.out.count = MaxInitiatives
    /\ \E i \in DOMAIN initiatives :
          /\ initiatives[i].creator_name # initiatives_twin[i].creator_name
          /\ \E d \in ReturnedInitiatives(tool_out.out) : d.id = i

\* Signal (a): trace_width * 1.2, available when a trace width was estimated
SignalA ==
    IF TraceWidth(ValidSizes(rfile)) = None THEN None
    ELSE Some((Val(TraceWidth(ValidSizes(rfile))) * 12) \div 10)

\* The distances in (0.01, 5.0) mm among the pairs the sampling loops visit,
\* whatever the number of coordinate tokens
NeighbourDistances ==
    {d \in {RuleToMm(Dist(rfile.coords[p[1] + 1], rfile.coords[p[2] + 1]), RuleUnits(rfile)) :
               p \in SampledPairs(Len(rfile.coords))} : 10000 < d /\ d < 5000000}

\* Signal (b): the smallest sampled neighbour distance
SignalB == IF NeighbourDistances = {} THEN None ELSE Some(SetMin(NeighbourDistances))

\* C25: min_spacing is the minimum of the signals that are available, (a)
\* whenever a trace width was estimated and (b) whenever a sampled pair has a
\* distance in (0.01, 5.0) mm, for any number of coordinate tokens; it is None
\* exactly when neither is available.  The value is compared after the rounding
\* to three decimals of every output.
C25_MinOfAvailableSignals ==
    RulesDone =>
        /\ rresult.min_spacing_mm =
              (IF SignalA = None /\ SignalB = None THEN None
               ELSE IF SignalA = None THEN Some(Round3(Val(SignalB)))
               ELSE IF SignalB = None THEN Some(Round3(Val(SignalA)))
               ELSE Some(Round3(MinOf(Val(SignalA), Val(SignalB)))))
        /\ (rresult.min_spacing_mm = None) <=> (SignalA = None /\ SignalB = None)

\* The pairs (i, j), 0-based, with i < 500 and i < j <= i + 50 among the first
\* 5000 of n coordinate tokens
WindowPairs(n) ==
    {<<i, j>> \in (0..(MinOf(OuterLimit, MinOf(n, CoordLimit)) - 1))
                    \X (0..(MinOf(n, CoordLimit) - 1)) :
        i < j /\ j <= i + InnerLimit}

\* C26: the coordinate-distance sampling considers exactly the pairs (i, j) of
\* the first 5000 coordinate tokens with i < 500 and i < j <= i + 50, so at most
\* 500 * 50 distances are computed, for any file size.
C26_SampledWindow ==
    RulesDone =>
        /\ ComparedPairs(rfile.coords) = WindowPairs(Len(rfile.coords))
        /\ Cardinality(ComparedPairs(rfile.coords)) <= OuterLimit * InnerLimit

\* The persisted issue rows of the analysis with the given severity
RowsOfSeverity(severity) ==
    Cardinality({i \in DOMAIN analysis_issues :
                    /\ analysis_issues[i].analysis_id = analysis_id
                    /\ analysis_issues[i].severity = severity})

\* C27: after any sequence of successful generate_design_summary and
\* perform_cam_analysis calls on one analysis, in any order and with
\* repetitions, issues_critical, issues_warning and issues_info of its result
\* row equal the numbers of persisted issue rows of each severity.
C27_CountsMatchRows ==
    analysis_result # None =>
        /\ Val(analysis_result).issues_critical = RowsOfSeverity("critical")
        /\ Val(analysis_result).issues_warning = RowsOfSeverity("warning")
        /\ Val(analysis_result).issues_info = RowsOfSeverity("info")

\* C29: for any interleaving of concurrent save_analysis_result calls for the
\* same analysis_id, every call returns normally and exactly one result row
\* exists for that analysis_id afterwards.
C29_ConcurrentSavesSucceed ==
    \A p \in DOMAIN savers :
        /\ savers[p].pc # "raised"
        /\ savers[p].pc = "returned" =>
              Cardinality(RowsOf(results_table, savers[p].analysis_id)) = 1

====
